---- MODULE Spec2Model ----
(***************************************************************************)
(* A model of the two-pass Z80 assembler of paulhankin/z80asm: the token   *)
(* scanner stack, the statement loop of Assembler.assemble, the error      *)
(* recovery of Assembler.assembleFile, the two passes of                   *)
(* Assembler.AssembleFile, the label/const tables and the directives.      *)
(* A source file is a sequence of tokens (what text/scanner hands to       *)
(* Assembler.nextToken); a source position "file:line.col" is the pair     *)
(* (file, index of the token scanned last).                                *)
(***************************************************************************)
EXTENDS Integers, Sequences, FiniteSets, TLC

VARIABLES
    files,    \* the opener: file name -> token sequence (input, never changes)
    asm,      \* the Assembler struct
    ctl,      \* where the program is: "idle", "run", "passEnd", "returned"
    fname,    \* AssembleFile's argument
    saved,    \* AssembleFile's locals pc, target (restored by the deferred func)
    errs,     \* assembleFile's local errs
    result,   \* what AssembleFile returned (<<>> is nil)
    calls,    \* the files the client still calls AssembleFile on, in order
    obs       \* observations of the run (history, read by the properties only)

vars == <<files, asm, ctl, fname, saved, errs, result, calls, obs>>

-----------------------------------------------------------------------------
(* Bounds of the model *)

\* Longest small program, in statements.
MaxStmts == 3
\* Longest run of one repeated statement in a long program.
MaxRep == 21
\* Longest program about label scopes, in statements.
MaxScope == 5

-----------------------------------------------------------------------------
(* Maps (Go map[string]T) *)

EmptyMap == [k \in {} |-> 0]

Has(mp, k) == k \in DOMAIN mp

Put(mp, k, v) == [x \in (DOMAIN mp) \cup {k} |-> IF x = k THEN v ELSE mp[x]]

\* Go's m[k] for a missing key: the zero value z.
Get(mp, k, z) == IF k \in DOMAIN mp THEN mp[k] ELSE z

-----------------------------------------------------------------------------
(* Tokens: token{t rune, s string}.  i is the value of an Int literal.     *)

Tok(t, s, i) == [t |-> t, s |-> s, i |-> i]

TIdent(s) == Tok("Ident", s, 0)
TInt(i) == Tok("Int", "", i)
TStr(s) == Tok("String", s, 0)
TP(c) == Tok(c, "", 0)
TEOF == Tok("EOF", "", 0)
\* A token the scanner reports a lexical error for (its Error callback runs).
TBad == Tok("Bad", "", 0)
\* token{}: Go's zero value.
ZeroTok == Tok("", "", 0)

\* The two-character operators of tokStrings.
tokStrings == {"<<", ">>", "&^", "==", "!=", "<=", ">=", "&&", "||"}

endStatement(t) == t.t \in {";", "EOF", "\n"}

-----------------------------------------------------------------------------
(* Errors: an error is a record; loc is the "file:line.col" prefix that    *)
(* scanErrorf puts in front of the message, NoLoc when the error was made  *)
(* with fmt.Errorf and carries no position.                                *)

NoLoc == [file |-> "", pos |-> 0]
NoErr == [loc |-> NoLoc, msg |-> "", arg |-> ""]
Err(loc, msg, arg) == [loc |-> loc, msg |-> msg, arg |-> arg]

-----------------------------------------------------------------------------
(* Argument shapes: the arg enumeration (iota from void).                  *)

void == 0
regA == 1
regB == 2
regC == 3
regD == 4
regE == 5
regH == 6
regL == 7
regI == 8
regR == 9
regAF == 10
regAF2 == 11
regBC == 12
regDE == 13
regHL == 14
regSP == 15
regIX == 16
regIXL == 17
regIXH == 18
regIY == 19
regIYH == 20
regIYL == 21
indBC == 22
indDE == 23
indHL == 24
indIX == 25
indIY == 26
indIXplus == 27
indIYplus == 28
indSP == 29
const8 == 30
const16 == 31
const16be == 32
constS8 == 33
addr16 == 34
reladdr8 == 35
port8 == 36
portC == 37
ind16 == 38
ccNZ == 39
ccNC == 40
ccPO == 41
ccP == 42
ccZ == 43
ccC == 44
ccPE == 45
ccM == 46
val00h == 47
val01h == 48
val02h == 49
val03h == 50
val04h == 51
val05h == 52
val06h == 53
val07h == 54
val08h == 55
val10h == 56
val18h == 57
val20h == 58
val28h == 59
val30h == 60
val38h == 61
argstring == 62

\* arg2: a two-argument shape packs both shapes in one number.
arg2(a1, a2) == 1024 * a1 + a2

argType(a) ==
    CASE a = void -> "argTypeVoid"
      [] a \in {regA, regB, regC, regD, regE, regH, regL, regI, regR, regAF,
                regAF2, regBC, regDE, regHL, regSP, regIX, regIXL, regIXH,
                regIY, regIYH, regIYL} -> "argTypeReg"
      [] a \in {indBC, indDE, indHL, indSP, indIX, indIY} -> "argTypeIndReg"
      [] a \in {indIXplus, indIYplus} -> "argTypeIndRegPlusInt"
      [] a \in {const8, const16, const16be, constS8} -> "argTypeInt"
      [] a = addr16 -> "argTypeAddress"
      [] a = reladdr8 -> "argTypeRelAddress"
      [] a = port8 -> "argTypePort"
      [] a = portC -> "argTypePortC"
      [] a = ind16 -> "argTypeIndAddress"
      [] a \in {ccNZ, ccNC, ccPO, ccP, ccZ, ccC, ccPE, ccM} -> "argTypeCC"
      [] a \in {val00h, val01h, val02h, val03h, val04h, val05h, val06h,
                val07h, val08h, val10h, val18h, val20h, val28h, val30h,
                val38h} -> "argTypeFixed"
      [] a = argstring -> "argTypeString"
      [] OTHER -> "argTypeUnknown"

argLen(a) == IF a = 0 THEN 0 ELSE IF a < 1024 THEN 1 ELSE 2

\* argMap restricted to registers and condition codes: the names that
\* regFromString and ccFromString index (getMatchingArgs).
regFromString(s) ==
    CASE s = "a" -> regA [] s = "b" -> regB [] s = "c" -> regC
      [] s = "d" -> regD [] s = "e" -> regE [] s = "h" -> regH
      [] s = "l" -> regL [] s = "i" -> regI [] s = "r" -> regR
      [] s = "af" -> regAF [] s = "bc" -> regBC [] s = "de" -> regDE
      [] s = "hl" -> regHL [] s = "sp" -> regSP [] s = "ix" -> regIX
      [] s = "ixl" -> regIXL [] s = "ixh" -> regIXH [] s = "iy" -> regIY
      [] s = "iyh" -> regIYH [] s = "iyl" -> regIYL
      [] OTHER -> 0

ccFromString(s) ==
    CASE s = "nz" -> ccNZ [] s = "nc" -> ccNC [] s = "po" -> ccPO
      [] s = "p" -> ccP [] s = "z" -> ccZ [] s = "c" -> ccC
      [] s = "pe" -> ccPE [] s = "m" -> ccM
      [] OTHER -> 0

-----------------------------------------------------------------------------
(* The Assembler struct and its scanner stack                              *)

\* The initial pc and target of NewAssembler.
InitialPC == 32768
\* len(asm.m) after NewAssembler: 64*1024.
InitialMemLen == 65536
\* assembleFile stops after this many errors.
MaxErrors == 20

\* Z80Core: the levels of the UseNextCore option.
Z80CoreStandard == 0
Z80CoreNext1 == 1
Z80CoreNext2 == 2

Cores == {Z80CoreStandard, Z80CoreNext1, Z80CoreNext2}

\* NewAssembler.  m is the slice asm.m: its length and the bytes that are
\* not zero (a fresh slice is all zero).  The field core stands for
\* asm.commandTable, which NewAssembler builds from the core option alone.
NewAssembler(core) ==
    [core |-> core, pass |-> 0, pc |-> InitialPC, target |-> InitialPC,
     l |-> EmptyMap, consts |-> EmptyMap, constsDef |-> {},
     currentMajorLabel |-> "", labelAssign |-> EmptyMap,
     m |-> [len |-> InitialMemLen, b |-> EmptyMap],
     scanners |-> <<>>, closers |-> <<>>, openFiles |-> <<>>,
     scanErr |-> NoErr, lastToken |-> ZeroTok]

\* asm.scan(): the scanner on top of the stack.
scan(a) == a.scanners[Len(a.scanners)]

\* asm.location(): the position of the token scanned last by the top scanner.
location(a) == [file |-> scan(a).file, pos |-> scan(a).cur]

scanErrorf(a, msg, arg) == Err(location(a), msg, arg)

canContinue(a) == a.scanErr = NoErr

\* A fresh scanner on a file: nothing scanned yet.
NewScanner(f) == [file |-> f, pos |-> 1, cur |-> 0]

\* scanner.Scan on the top scanner: the token it returns and the assembler
\* with the scanner advanced.  At the end of the file Scan keeps returning EOF.
\* A token the scanner cannot lex makes it call its Error callback, which
\* sets asm.scanErr.
ScanTop(a, fs) ==
    LET Scanned(t, a1) ==
            [tok |-> t,
             a |-> IF t.t = "Bad"
                     THEN [a1 EXCEPT !.scanErr = scanErrorf(a1, "scan error", "")]
                     ELSE a1]
        Advance(sc, atEnd, toks) ==
            Scanned(IF atEnd THEN TEOF ELSE toks[sc.pos],
                    [a EXCEPT !.scanners[Len(a.scanners)] =
                        [sc EXCEPT !.pos = IF atEnd THEN @ ELSE @ + 1,
                                   !.cur = sc.pos]])
        Look(sc, toks) == Advance(sc, sc.pos > Len(toks), toks)
    IN  Look(scan(a), fs[scan(a).file])

\* Assembler.nextToken: a two-character operator is returned without
\* recording it in lastToken.
nextToken(a, fs) ==
    LET Scanned(s) ==
            IF s.a.scanErr # NoErr
              THEN [tok |-> ZeroTok, err |-> s.a.scanErr, a |-> s.a]
            ELSE IF s.tok.t \in tokStrings
              THEN [tok |-> Tok(s.tok.t, "", 0), err |-> NoErr, a |-> s.a]
            ELSE [tok |-> s.tok, err |-> NoErr,
                  a |-> [s.a EXCEPT !.lastToken = s.tok]]
    IN  Scanned(ScanTop(a, fs))

InSeq(x, sq) == \E i \in 1..Len(sq) : sq[i] = x

\* pushScanner without the search of asm.openFiles.
pushScanner_NoCheck(a, fs, filename) ==
    IF filename \notin DOMAIN fs
      THEN [err |-> Err(NoLoc, "failed to assemble", filename), a |-> a]
    ELSE [err |-> NoErr,
          a |-> [a EXCEPT !.openFiles = Append(@, filename),
                          !.scanners = Append(@, NewScanner(filename)),
                          !.closers = Append(@, filename)]]

\* Assembler.pushScanner.  The opener fails for a file that does not exist.
pushScanner(a, fs, filename) ==
    IF InSeq(filename, a.openFiles)
      THEN [err |-> Err(NoLoc, "recursive include of file", filename), a |-> a]
    ELSE IF filename \notin DOMAIN fs
      THEN [err |-> Err(NoLoc, "failed to assemble", filename), a |-> a]
    ELSE [err |-> NoErr,
          a |-> [a EXCEPT !.openFiles = Append(@, filename),
                          !.scanners = Append(@, NewScanner(filename)),
                          !.closers = Append(@, filename)]]

\* popScanner reporting the end of the pass at the end of every file.
popScanner_AlwaysDone(a) ==
    LET a1 == [a EXCEPT !.closers = SubSeq(@, 1, Len(@) - 1),
                        !.scanners = SubSeq(@, 1, Len(@) - 1),
                        !.openFiles = SubSeq(@, 1, Len(@) - 1)]
    IN  [done |-> TRUE, a |-> a1]

\* Assembler.popScanner (closing a file never fails here).
popScanner(a) ==
    LET a1 == [a EXCEPT !.closers = SubSeq(@, 1, Len(@) - 1),
                        !.scanners = SubSeq(@, 1, Len(@) - 1),
                        !.openFiles = SubSeq(@, 1, Len(@) - 1)]
    IN  [done |-> Len(a1.scanners) = 0, a |-> a1]

-----------------------------------------------------------------------------
(* Expressions and the parser                                              *)

NilExpr == [k |-> "nil"]
exprInt(i) == [k |-> "int", i |-> i]
exprString(s) == [k |-> "str", s |-> s]
exprChar(r) == [k |-> "char", i |-> r]
exprIdent(id) ==
    [k |-> "ident", id |-> id, r |-> regFromString(id), cc |-> ccFromString(id)]
exprUnaryOp(op, e) == [k |-> "unary", op |-> op, e |-> e]
exprBinaryOp(op, e1, e2) == [k |-> "binary", op |-> op, e1 |-> e1, e2 |-> e2]
exprBracket(e) == [k |-> "bracket", e |-> e]

precUnary == 12

\* opPrecedence[op]; 0 for a token that is no binary operator.
opPrecedence(op) ==
    CASE op \in {"*", "/", "%", "<<", ">>", "&", "&^"} -> 10
      [] op \in {"+", "-", "|", "^"} -> 8
      [] op \in {"==", ">=", "<=", "<", ">", "!="} -> 6
      [] op = "&&" -> 4
      [] op = "||" -> 2
      [] OTHER -> 0

\* token.String(), as far as error messages are told apart here.
TokString(tok) == IF tok.t = "Ident" THEN tok.s ELSE tok.t

\* The result of a parse that failed.
PFail(e, a) == [ex |-> NilExpr, tok |-> ZeroTok, err |-> e, a |-> a]

RECURSIVE parseExpression(_, _, _, _)
RECURSIVE continueExpr(_, _, _, _, _, _)

continueExpr(a, fs, pri, ex, tok, err) ==
    LET Rhs(r) ==
            IF r.err # NoErr
              THEN PFail(r.err, r.a)
              ELSE continueExpr(r.a, fs, pri,
                                exprBinaryOp(tok.t, ex, r.ex), r.tok, r.err)
    IN  IF err = NoErr /\ opPrecedence(tok.t) > 0 /\ opPrecedence(tok.t) > pri
          THEN Rhs(parseExpression(a, fs, opPrecedence(tok.t), FALSE))
          ELSE [ex |-> ex, tok |-> tok, err |-> err, a |-> a]

parseExpression(a, fs, pri, emptyOK) ==
    LET \* asm.continueExpr(pri, ex, asm.nextToken())
        Cont(p, ex, nt) == continueExpr(nt.a, fs, p, ex, nt.tok, nt.err)
        Unary(op, r) ==
            continueExpr(r.a, fs, pri, exprUnaryOp(op, r.ex), r.tok, r.err)
        Bracket(r) ==
            IF r.err # NoErr THEN PFail(r.err, r.a)
            ELSE IF r.tok.t # ")"
              THEN PFail(scanErrorf(r.a, "found, expected )",
                                    TokString(r.tok)), r.a)
            ELSE Cont(0, exprBracket(r.ex), nextToken(r.a, fs))
        Char(c, nt) ==
            [ex |-> exprChar(c), tok |-> nt.tok, err |-> nt.err, a |-> nt.a]
        Parse(n, tok) ==
            IF n.err # NoErr THEN PFail(n.err, n.a)
            ELSE CASE tok.t \in {";", "\n", "EOF"} ->
                        IF ~emptyOK
                          THEN PFail(scanErrorf(n.a, "unexpected",
                                                TokString(tok)), n.a)
                          ELSE [ex |-> NilExpr, tok |-> tok, err |-> NoErr,
                                a |-> n.a]
                   [] tok.t \in {"-", "^", "!"} ->
                        Unary(tok.t, parseExpression(n.a, fs, precUnary, FALSE))
                   [] tok.t = "(" ->
                        Bracket(parseExpression(n.a, fs, 0, FALSE))
                   [] tok.t = "Int" ->
                        Cont(pri, exprInt(tok.i), nextToken(n.a, fs))
                   [] tok.t = "String" ->
                        Cont(pri, exprString(tok.s), nextToken(n.a, fs))
                   [] tok.t = "Char" ->
                        Char(tok.i, nextToken(n.a, fs))
                   [] tok.t = "Ident" ->
                        Cont(pri, exprIdent(tok.s), nextToken(n.a, fs))
                   [] OTHER ->
                        PFail(scanErrorf(n.a, "unexpected token",
                                         TokString(tok)), n.a)
        Start(n) == Parse(n, n.tok)
    IN  Start(nextToken(a, fs))

RECURSIVE parseSepArgsLoop(_, _, _, _, _, _)

\* The loop of parseSepArgs with its locals r and comma.
parseSepArgsLoop(a, fs, sep, trailingOK, r, comma) ==
    LET Step(p, r1, comma1) ==
            IF p.err # NoErr THEN [args |-> <<>>, err |-> p.err, a |-> p.a]
            ELSE IF p.tok.t = sep
              THEN parseSepArgsLoop(p.a, fs, sep, trailingOK, r1, TRUE)
            ELSE IF p.tok.t \in {";", "\n", "EOF"}
              THEN IF comma1 /\ ~trailingOK
                     THEN [args |-> <<>>, a |-> p.a,
                           err |-> scanErrorf(p.a, "unexpected trailing", sep)]
                     ELSE [args |-> r1, err |-> NoErr, a |-> p.a]
            ELSE [args |-> <<>>, a |-> p.a,
                  err |-> scanErrorf(p.a, "unexpected", TokString(p.tok))]
        Parsed(p) ==
            Step(p, IF p.ex # NilExpr THEN Append(r, p.ex) ELSE r,
                 IF p.ex # NilExpr THEN FALSE ELSE comma)
    IN  Parsed(parseExpression(a, fs, 0, TRUE))

parseSepArgs(a, fs, sep, trailingOK) ==
    parseSepArgsLoop(a, fs, sep, trailingOK, <<>>, FALSE)

parseArgs(a, fs, trailingOK) == parseSepArgs(a, fs, ",", trailingOK)

-----------------------------------------------------------------------------
(* Integer arithmetic of Go                                                *)

Abs(x) == IF x < 0 THEN -x ELSE x

\* Go's / truncates toward zero; % takes the sign of the dividend.
GoDiv(x, y) ==
    LET q == Abs(x) \div Abs(y) IN IF (x < 0) # (y < 0) THEN -q ELSE q

GoMod(x, y) == x - y * GoDiv(x, y)

RECURSIVE Pow2(_)
Pow2(n) == IF n <= 0 THEN 1 ELSE 2 * Pow2(n - 1)

\* Two's complement bit operations.
RECURSIVE BitAnd(_, _)
BitAnd(x, y) ==
    IF x = 0 \/ y = 0 THEN 0
    ELSE IF x = -1 THEN y
    ELSE IF y = -1 THEN x
    ELSE 2 * BitAnd(x \div 2, y \div 2) + (x % 2) * (y % 2)

BitNot(x) == -x - 1
BitOr(x, y) == BitNot(BitAnd(BitNot(x), BitNot(y)))
BitXor(x, y) == BitAnd(BitOr(x, y), BitNot(BitAnd(x, y)))

\* The conversions uint16(i) and byte(i).
uint16(i) == i % 65536
byte(i) == i % 256

bool2int(b) == IF b THEN 1 ELSE 0

-----------------------------------------------------------------------------
(* Labels and constants                                                    *)

\* The identifiers of the modelled sources.
Idents == {"x", "y", "k", "f", "g", "missing", "foo"}

\* strings.HasPrefix(l, ".")
HasDotPrefix(s) == \E n \in Idents : s = "." \o n

\* GetLabel trying the bare name before the minor label of majLabel.
GetLabel_BareFirst(a, majLabel, lbl) ==
    IF HasDotPrefix(lbl)
      THEN [v |-> Get(a.l, majLabel \o lbl, 0), ok |-> Has(a.l, majLabel \o lbl)]
    ELSE IF Has(a.l, lbl)
      THEN [v |-> a.l[lbl], ok |-> TRUE]
    ELSE [v |-> Get(a.l, majLabel \o "." \o lbl, 0),
          ok |-> Has(a.l, majLabel \o "." \o lbl)]

\* Assembler.GetLabel
GetLabel(a, majLabel, lbl) ==
    IF HasDotPrefix(lbl)
      THEN [v |-> Get(a.l, majLabel \o lbl, 0), ok |-> Has(a.l, majLabel \o lbl)]
    ELSE IF Has(a.l, majLabel \o "." \o lbl)
      THEN [v |-> a.l[majLabel \o "." \o lbl], ok |-> TRUE]
    ELSE [v |-> Get(a.l, lbl, 0), ok |-> Has(a.l, lbl)]

\* GetConst without the check that the constant was defined in this pass.
GetConst_AnyPass(a, c) ==
    [v |-> Get(a.consts, c, 0), ok |-> Has(a.consts, c), err |-> NoErr]

\* Assembler.GetConst
GetConst(a, c) ==
    IF c \notin a.constsDef
      THEN IF Has(a.consts, c)
             THEN [v |-> 0, ok |-> FALSE,
                   err |-> scanErrorf(a, "use of const before definition", c)]
             ELSE [v |-> 0, ok |-> FALSE, err |-> NoErr]
      ELSE [v |-> Get(a.consts, c, 0), ok |-> Has(a.consts, c), err |-> NoErr]

\* The constant lookup that precedes the label lookup of an identifier.
identConst(a, id) == GetConst(a, id)

\* The major label in whose scope an identifier is looked up as a label.
identMajor(a) == a.currentMajorLabel

\* exprIdent.getIntValue
identGetIntValue(a, ei) ==
    LET Lookup(c, g) ==
            IF c.err # NoErr THEN [v |-> 0, ok |-> FALSE, err |-> c.err]
            ELSE IF c.ok THEN [v |-> c.v, ok |-> TRUE, err |-> NoErr]
            ELSE IF a.pass > 0 /\ ~g.ok
              THEN [v |-> 0, ok |-> FALSE,
                    err |-> scanErrorf(a, "unknown label", ei.id)]
            ELSE [v |-> g.v, ok |-> TRUE, err |-> NoErr]
    IN  IF ei.r # 0 \/ ei.cc # 0 THEN [v |-> 0, ok |-> FALSE, err |-> NoErr]
        ELSE Lookup(identConst(a, ei.id),
                    GetLabel(a, identMajor(a), ei.id))

exprUnaryOp_apply(op, n1) ==
    CASE op = "!" -> bool2int(n1 = 0)
      [] op = "^" -> BitNot(n1)
      [] op = "-" -> -n1

IVal(v) == [v |-> v, ok |-> TRUE, err |-> NoErr]
IErr(e) == [v |-> 0, ok |-> FALSE, err |-> e]

RECURSIVE getIntValue(_, _)
RECURSIVE exprBinaryOp_apply(_, _, _, _)

\* The switch of exprBinaryOp.apply for the operators that take both values.
binaryOpValue(op, n1, n2) ==
    CASE op = "+" -> IVal(n1 + n2)
      [] op = "-" -> IVal(n1 - n2)
      [] op = "*" -> IVal(n1 * n2)
      [] op = "/" ->
           IF n2 = 0 THEN IErr(Err(NoLoc, "divide by zero", ""))
           ELSE IVal(GoDiv(n1, n2))
      [] op = "%" ->
           IF n2 = 0
             THEN IErr(Err(NoLoc,
                           "second arg of % must be non-zero", ""))
             ELSE IVal(GoMod(n1, n2))
      [] op = "&" -> IVal(BitAnd(n1, n2))
      [] op = "&^" -> IVal(BitAnd(n1, BitNot(n2)))
      [] op = "|" -> IVal(BitOr(n1, n2))
      [] op = "==" -> IVal(bool2int(n1 = n2))
      [] op = "!=" -> IVal(bool2int(n1 # n2))
      [] op = "<=" -> IVal(bool2int(n1 <= n2))
      [] op = ">=" -> IVal(bool2int(n1 >= n2))
      [] op = "<" -> IVal(bool2int(n1 < n2))
      [] op = ">" -> IVal(bool2int(n1 > n2))
      [] op = ">>" ->
           IF n2 < 0
             THEN IErr(Err(NoLoc, "shift must be positive", ""))
             ELSE IVal(n1 \div Pow2(n2))
      [] op = "<<" ->
           IF n2 < 0
             THEN IErr(Err(NoLoc, "shift must be positive", ""))
             ELSE IVal(n1 * Pow2(n2))

\* exprBinaryOp.apply evaluating the right operand of && and || as it does
\* for the other operators.
exprBinaryOp_apply_Eager(a, op, n1, e2) ==
    LET Apply(r2, n2) ==
            IF r2.err # NoErr THEN IErr(r2.err)
            ELSE IF ~r2.ok THEN IErr(scanErrorf(a, "can't compute constant", ""))
            ELSE IF op \in {"&&", "||"}
              THEN IF (n1 # 0 /\ op = "||") \/ (n1 = 0 /\ op = "&&")
                     THEN IVal(n1)
                     ELSE IVal(n2)
            ELSE binaryOpValue(op, n1, n2)
        Rhs(r2) == Apply(r2, r2.v)
    IN  Rhs(getIntValue(a, e2))

\* exprBinaryOp.apply: n1 is the value of the left operand; the right operand
\* of && and || is evaluated only when the left one does not decide.
exprBinaryOp_apply(a, op, n1, e2) ==
    LET Apply(r2, n2) ==
            IF op \in {"&&", "||"}
              THEN IF (n1 # 0 /\ op = "||") \/ (n1 = 0 /\ op = "&&")
                     THEN IVal(n1)
                   ELSE IF r2.err # NoErr THEN IErr(r2.err)
                   ELSE IF ~r2.ok
                     THEN IErr(scanErrorf(a, "can't compute constant", ""))
                   ELSE IVal(n2)
            ELSE IF r2.err # NoErr THEN IErr(r2.err)
            ELSE IF ~r2.ok THEN IErr(scanErrorf(a, "can't compute constant", ""))
            ELSE binaryOpValue(op, n1, n2)
        Rhs(r2) == Apply(r2, r2.v)
    IN  Rhs(getIntValue(a, e2))

getIntValue(a, e) ==
    LET Unary(r) ==
            IF ~r.ok \/ r.err # NoErr THEN [v |-> 0, ok |-> r.ok, err |-> r.err]
            ELSE IVal(exprUnaryOp_apply(e.op, r.v))
        Binary(r1) ==
            IF r1.err # NoErr \/ ~r1.ok
              THEN [v |-> 0, ok |-> r1.ok, err |-> r1.err]
              ELSE exprBinaryOp_apply(a, e.op, r1.v, e.e2)
    IN  CASE e.k = "ident" -> identGetIntValue(a, e)
          [] e.k = "bracket" -> getIntValue(a, e.e)
          [] e.k = "unary" -> Unary(getIntValue(a, e.e))
          [] e.k = "int" -> IVal(e.i)
          [] e.k = "binary" -> Binary(getIntValue(a, e.e1))
          [] OTHER -> [v |-> 0, ok |-> FALSE, err |-> NoErr]

-----------------------------------------------------------------------------
(* Operand evaluation                                                      *)

\* argRange taking const8 for an unsigned byte.
argRange_Unsigned8(ar) ==
    CASE ar = const8 -> [min |-> 0, max |-> 255, size |-> 1]
      [] ar = const16 -> [min |-> -32768, max |-> 65535, size |-> 2]
      [] ar = const16be -> [min |-> -32768, max |-> 65535, size |-> 2]
      [] ar = constS8 -> [min |-> -128, max |-> 127, size |-> 1]
      [] ar = addr16 -> [min |-> 0, max |-> 65535, size |-> 2]
      [] ar = reladdr8 -> [min |-> -128, max |-> 127, size |-> 1]
      [] ar = port8 -> [min |-> 0, max |-> 255, size |-> 1]
      [] ar = ind16 -> [min |-> 0, max |-> 65535, size |-> 2]

argRange(ar) ==
    CASE ar = const8 -> [min |-> -128, max |-> 255, size |-> 1]
      [] ar = const16 -> [min |-> -32768, max |-> 65535, size |-> 2]
      [] ar = const16be -> [min |-> -32768, max |-> 65535, size |-> 2]
      [] ar = constS8 -> [min |-> -128, max |-> 127, size |-> 1]
      [] ar = addr16 -> [min |-> 0, max |-> 65535, size |-> 2]
      [] ar = reladdr8 -> [min |-> -128, max |-> 127, size |-> 1]
      [] ar = port8 -> [min |-> 0, max |-> 255, size |-> 1]
      [] ar = ind16 -> [min |-> 0, max |-> 65535, size |-> 2]

writesBigEndian(ar) == ar = const16be

BVal(bs) == [bs |-> bs, ok |-> TRUE, err |-> NoErr]
BNo == [bs |-> <<>>, ok |-> FALSE, err |-> NoErr]
BErr(e) == [bs |-> <<>>, ok |-> FALSE, err |-> e]

\* serializeIntArg with the two bytes of a 16-bit value in the other order.
serializeIntArg_Swapped(a, i, ar) ==
    LET rg == argRange(ar)
        ui == uint16(i)
    IN  IF i < rg.min \/ i > rg.max
          THEN BErr(scanErrorf(a, "is not in the range", ""))
        ELSE IF rg.size = 1 THEN BVal(<<byte(ui)>>)
        ELSE BVal(<<byte(ui \div 256), byte(ui % 256)>>)

serializeIntArg(a, i, ar) ==
    LET rg == argRange(ar)
        ui == uint16(i)
    IN  IF i < rg.min \/ i > rg.max
          THEN BErr(scanErrorf(a, "is not in the range", ""))
        ELSE IF rg.size = 1 THEN BVal(<<byte(ui)>>)
        ELSE IF writesBigEndian(ar) THEN BVal(<<byte(ui \div 256), byte(ui % 256)>>)
        ELSE BVal(<<byte(ui % 256), byte(ui \div 256)>>)

\* argVals, and validFixedArgs (its range).
argVals(ar) ==
    CASE ar = val00h -> 0 [] ar = val01h -> 1 [] ar = val02h -> 2
      [] ar = val03h -> 3 [] ar = val04h -> 4 [] ar = val05h -> 5
      [] ar = val06h -> 6 [] ar = val07h -> 7 [] ar = val08h -> 8
      [] ar = val10h -> 16 [] ar = val18h -> 24 [] ar = val20h -> 32
      [] ar = val28h -> 40 [] ar = val30h -> 48 [] ar = val38h -> 56

validFixedArgs == {0, 1, 2, 3, 4, 5, 6, 7, 8, 16, 24, 32, 40, 48, 56}

\* exprInt.evalAs
exprInt_evalAs(a, i, ar) ==
    LET Typed(ty) ==
            CASE ty \in {"argTypeInt", "argTypeAddress"} -> serializeIntArg(a, i, ar)
              [] ty = "argTypeRelAddress" -> BNo
              [] ty = "argTypeFixed" ->
                   IF i \notin validFixedArgs
                     THEN BErr(scanErrorf(a, "is not a valid argument", ""))
                     ELSE [bs |-> <<>>, ok |-> i = argVals(ar), err |-> NoErr]
              [] OTHER -> BNo
    IN  Typed(argType(ar))

\* []byte(s) for the strings of the modelled sources.
StrBytes(s) ==
    CASE s = "hi" -> <<104, 105>>
      [] s = "a.asm" -> <<97, 46, 97, 115, 109>>
      [] s = "b.asm" -> <<98, 46, 97, 115, 109>>
      [] OTHER -> <<>>

\* The address a relative jump is relative to, less two: the logical address
\* of the first byte of the instruction.
relBase(a) == a.pc

\* exprIdent.evalAs taking the displacement from the start of the instruction.
exprIdent_evalAs_FromStart(a, e, ar) ==
    LET Value(r) ==
            IF r.err # NoErr \/ ~r.ok
              THEN [bs |-> <<>>, ok |-> r.ok, err |-> r.err]
              ELSE serializeIntArg(a,
                       IF argType(ar) = "argTypeRelAddress"
                         THEN IF a.pass = 0 THEN 0 ELSE r.v - relBase(a)
                         ELSE r.v,
                       ar)
        Typed(ty) ==
            CASE ty = "argTypeReg" -> [bs |-> <<>>, ok |-> e.r = ar, err |-> NoErr]
              [] ty = "argTypeCC" -> [bs |-> <<>>, ok |-> e.cc = ar, err |-> NoErr]
              [] ty \in {"argTypeInt", "argTypeAddress", "argTypeRelAddress"} ->
                   Value(identGetIntValue(a, e))
              [] OTHER -> BNo
    IN  Typed(argType(ar))

\* exprIdent.evalAs
exprIdent_evalAs(a, e, ar) ==
    LET Value(r) ==
            IF r.err # NoErr \/ ~r.ok
              THEN [bs |-> <<>>, ok |-> r.ok, err |-> r.err]
              ELSE serializeIntArg(a,
                       IF argType(ar) = "argTypeRelAddress"
                         THEN IF a.pass = 0 THEN 0 ELSE r.v - (relBase(a) + 2)
                         ELSE r.v,
                       ar)
        Typed(ty) ==
            CASE ty = "argTypeReg" -> [bs |-> <<>>, ok |-> e.r = ar, err |-> NoErr]
              [] ty = "argTypeCC" -> [bs |-> <<>>, ok |-> e.cc = ar, err |-> NoErr]
              [] ty \in {"argTypeInt", "argTypeAddress", "argTypeRelAddress"} ->
                   Value(identGetIntValue(a, e))
              [] OTHER -> BNo
    IN  Typed(argType(ar))

\* The register of the (ix) and (iy) shapes of jp.
indRegIndex(ar) == CASE ar = indIX -> regIX [] ar = indIY -> regIY

indRegGetReg(ar) ==
    CASE ar = indBC -> regBC [] ar = indHL -> regHL [] ar = indDE -> regDE
      [] ar = indSP -> regSP [] ar = indIXplus -> regIX [] ar = indIYplus -> regIY
      [] OTHER -> indRegIndex(ar)

\* The displacement of (reg+n) with the sign of a '-' dropped.
bracketPlusInt_Unsigned(a, ex, r, g) ==
    IF ~r.ok \/ r.err # NoErr
      THEN [bs |-> <<>>, ok |-> r.ok, err |-> r.err]
    ELSE IF ex.op \notin {"+", "-"}
      THEN BErr(scanErrorf(a, "expected reg+n or reg-n", ""))
    ELSE IF ~g.ok
      THEN BErr(scanErrorf(a, "right hand side must be int", ""))
    ELSE IF g.v < -128 \/ g.v > 127
      THEN BErr(scanErrorf(a, "out of range -128 to 127", ""))
    ELSE serializeIntArg(a, g.v, const8)

\* exprBracket.evalAs, case argTypeIndRegPlusInt with an exprBinaryOp ex
\* inside: r is the left side evaluated as the register, g the value of the
\* right side.
bracketPlusInt(a, ex, r, g) ==
    LET Disp(n) ==
            IF n < -128 \/ n > 127
              THEN BErr(scanErrorf(a, "out of range -128 to 127", ""))
              ELSE serializeIntArg(a, n, const8)
    IN  IF ~r.ok \/ r.err # NoErr
          THEN [bs |-> <<>>, ok |-> r.ok, err |-> r.err]
        ELSE IF ex.op \notin {"+", "-"}
          THEN BErr(scanErrorf(a, "expected reg+n or reg-n", ""))
        ELSE IF ~g.ok
          THEN BErr(scanErrorf(a, "right hand side must be int", ""))
        ELSE Disp(IF ex.op = "-" THEN -g.v ELSE g.v)

RECURSIVE evalAs(_, _, _, _)

\* expr.evalAs for every kind of expression (exprBracket.evalAs inline).
evalAs(a, e, ar, top) ==
    LET Computed(r) ==
            IF r.err # NoErr \/ ~r.ok
              THEN [bs |-> <<>>, ok |-> r.ok, err |-> r.err]
              ELSE exprInt_evalAs(a, r.v, ar)
        IndReg(r) == [bs |-> <<>>, ok |-> r.ok, err |-> r.err]
        PlusIdent(r) ==
            IF ~r.ok \/ r.err # NoErr
              THEN [bs |-> <<>>, ok |-> r.ok, err |-> r.err]
              ELSE BVal(<<0>>)
        PlusBinary(r, g) == bracketPlusInt(a, e.e, r, g)
        Bracket(ty) ==
            CASE ty = "argTypeInt" ->
                   IF top THEN BNo ELSE evalAs(a, e.e, ar, FALSE)
              [] ty = "argTypeIndReg" ->
                   IndReg(evalAs(a, e.e, indRegGetReg(ar), FALSE))
              [] ty = "argTypeIndAddress" -> evalAs(a, e.e, addr16, FALSE)
              [] ty = "argTypeIndRegPlusInt" ->
                   IF e.e.k = "ident"
                     THEN PlusIdent(exprIdent_evalAs(a, e.e, indRegGetReg(ar)))
                   ELSE IF e.e.k = "binary"
                     THEN PlusBinary(evalAs(a, e.e.e1, indRegGetReg(ar), FALSE),
                                     getIntValue(a, e.e.e2))
                   ELSE BNo
              [] ty = "argTypePort" -> evalAs(a, e.e, const8, FALSE)
              [] ty = "argTypePortC" -> evalAs(a, e.e, regC, FALSE)
              [] OTHER -> BNo
    IN  CASE e.k = "int" -> exprInt_evalAs(a, e.i, ar)
          [] e.k = "str" -> IF ar # argstring THEN BNo ELSE BVal(StrBytes(e.s))
          [] e.k = "char" ->
               IF argType(ar) = "argTypeInt"
                 THEN serializeIntArg(a, e.i, ar) ELSE BNo
          [] e.k = "ident" -> exprIdent_evalAs(a, e, ar)
          [] e.k \in {"unary", "binary"} -> Computed(getIntValue(a, e))
          [] e.k = "bracket" -> Bracket(argType(ar))

\* Assembler.argsCompatible
argsCompatible(a, vals, ar) ==
    LET Both(a0, a1) ==
            IF a0.err # NoErr THEN BErr(a0.err)
            ELSE IF ~a0.ok THEN BNo
            ELSE IF a1.err # NoErr THEN BErr(a1.err)
            ELSE IF ~a1.ok THEN BNo
            ELSE BVal(a0.bs \o a1.bs)
    IN  IF Len(vals) # argLen(ar) THEN BNo
        ELSE IF ar = 0 THEN BVal(<<>>)
        ELSE IF ar >= 1024
          THEN Both(evalAs(a, vals[1], ar \div 1024, TRUE),
                    evalAs(a, vals[2], ar % 1024, TRUE))
        ELSE evalAs(a, vals[1], ar, TRUE)

-----------------------------------------------------------------------------
(* Writing to memory                                                       *)

\* What a handler returns: the error (NoErr is nil) and the assembler after.
Ret(e, a) == [err |-> e, a |-> a]

\* A run-time panic of the Go program (index out of range).
Panic == Err(NoLoc, "PANIC", "")
\* log.Fatalf: the process exits.
Fatal == Err(NoLoc, "FATAL", "")

\* writeByte advancing the pc in pass 1 only.
writeByte_Pass1Only(a, u) ==
    LET Write(a1) ==
            IF a1.pc >= 65536 \/ a1.pc < 0
              THEN Ret(Err(NoLoc, "pc out of range", ""), a1)
            ELSE IF a1.target >= a1.m.len THEN Ret(Panic, a1)
            ELSE Ret(NoErr, [a1 EXCEPT !.m.b = Put(@, a1.target, u),
                                       !.pc = @ + a1.pass, !.target = @ + 1])
    IN  Write(IF a.target >= a.m.len
                THEN [a EXCEPT !.m.len =
                         ((a.target + 16384 - 1) \div 16384) * 16384]
                ELSE a)

\* Assembler.writeByte: grows asm.m to a multiple of 16K when the target is
\* beyond it, refuses a pc outside 0..65535, and indexing asm.m beyond its
\* length panics.
writeByte(a, u) ==
    LET Write(a1) ==
            IF a1.pc >= 65536 \/ a1.pc < 0
              THEN Ret(Err(NoLoc, "pc out of range", ""), a1)
            ELSE IF a1.target >= a1.m.len THEN Ret(Panic, a1)
            ELSE Ret(NoErr, [a1 EXCEPT !.m.b = Put(@, a1.target, u),
                                       !.pc = @ + 1, !.target = @ + 1])
    IN  Write(IF a.target >= a.m.len
                THEN [a EXCEPT !.m.len =
                         ((a.target + 16384 - 1) \div 16384) * 16384]
                ELSE a)

RECURSIVE writeBytes(_, _)
writeBytes(a, bs) ==
    LET Rest(w) == IF w.err # NoErr THEN w ELSE writeBytes(w.a, Tail(bs))
    IN  IF bs = <<>> THEN Ret(NoErr, a) ELSE Rest(writeByte(a, Head(bs)))

\* The byte of asm.m at an address.
MemAt(a, addr) == Get(a.m.b, addr, 0)

-----------------------------------------------------------------------------
(* The command table                                                       *)

\* commands0arg
commands0arg ==
    [nop |-> <<0>>, di |-> <<243>>, rlca |-> <<7>>, rla |-> <<23>>,
     daa |-> <<39>>, scf |-> <<55>>, exx |-> <<217>>, ei |-> <<251>>,
     rrca |-> <<15>>, rra |-> <<31>>, cpl |-> <<47>>, ccf |-> <<63>>,
     halt |-> <<118>>, ldi |-> <<237, 160>>, ldir |-> <<237, 176>>,
     cpi |-> <<237, 161>>, cpir |-> <<237, 177>>, ini |-> <<237, 162>>,
     inir |-> <<237, 178>>, outi |-> <<237, 163>>, otir |-> <<237, 179>>,
     neg |-> <<237, 68>>, reti |-> <<237, 77>>, retn |-> <<237, 69>>,
     rrd |-> <<237, 103>>, ldd |-> <<237, 168>>, lddr |-> <<237, 184>>,
     cpd |-> <<237, 169>>, cpdr |-> <<237, 185>>, ind |-> <<237, 170>>,
     indr |-> <<237, 186>>, outd |-> <<237, 171>>, otdr |-> <<237, 187>>,
     rld |-> <<237, 111>>]

StdRegs == <<regB, regC, regD, regE, regH, regL, indHL, regA>>

stdOpts(arg1, base, prefix) ==
    [v \in {arg2(arg1, StdRegs[i]) : i \in 1..8} |->
        prefix \o <<base + (CHOOSE i \in 1..8 : arg2(arg1, StdRegs[i]) = v) - 1>>]

joinOpts(o1, o2) == o1 @@ o2

rmOpt(os, o) == [k \in (DOMAIN os) \ {o} |-> os[k]]

ldArgs ==
    arg2(regBC, const16) :> <<1>> @@ arg2(regDE, const16) :> <<17>> @@
    arg2(regHL, const16) :> <<33>> @@ arg2(regSP, const16) :> <<49>> @@
    arg2(indBC, regA) :> <<2>> @@ arg2(indDE, regA) :> <<18>> @@
    arg2(ind16, regHL) :> <<34>> @@ arg2(ind16, regA) :> <<50>> @@
    arg2(regB, const8) :> <<6>> @@ arg2(regD, const8) :> <<22>> @@
    arg2(regH, const8) :> <<38>> @@ arg2(indHL, const8) :> <<54>> @@
    arg2(regA, indBC) :> <<10>> @@ arg2(regA, indDE) :> <<26>> @@
    arg2(regHL, ind16) :> <<42>> @@ arg2(regA, ind16) :> <<58>> @@
    arg2(regC, const8) :> <<14>> @@ arg2(regE, const8) :> <<30>> @@
    arg2(regL, const8) :> <<46>> @@ arg2(regA, const8) :> <<62>> @@
    arg2(regSP, regHL) :> <<249>> @@ arg2(ind16, regBC) :> <<237, 67>> @@
    arg2(ind16, regDE) :> <<237, 83>> @@ arg2(ind16, regSP) :> <<237, 115>> @@
    arg2(regI, regA) :> <<237, 71>> @@ arg2(regA, regI) :> <<237, 87>> @@
    arg2(regBC, ind16) :> <<237, 75>> @@ arg2(regDE, ind16) :> <<237, 91>> @@
    arg2(regSP, ind16) :> <<237, 123>> @@ arg2(regR, regA) :> <<237, 79>> @@
    arg2(regA, regR) :> <<237, 95>>

jpArgs ==
    arg2(ccNZ, addr16) :> <<194>> @@ arg2(ccNC, addr16) :> <<210>> @@
    arg2(ccPO, addr16) :> <<226>> @@ arg2(ccP, addr16) :> <<242>> @@
    addr16 :> <<195>> @@ arg2(ccZ, addr16) :> <<202>> @@
    arg2(ccC, addr16) :> <<218>> @@ arg2(ccPE, addr16) :> <<234>> @@
    arg2(ccM, addr16) :> <<250>> @@ indHL :> <<233>>

jrArgs ==
    reladdr8 :> <<24>> @@ arg2(ccZ, reladdr8) :> <<40>> @@
    arg2(ccC, reladdr8) :> <<56>> @@ arg2(ccNZ, reladdr8) :> <<32>> @@
    arg2(ccNC, reladdr8) :> <<48>>

retArgs ==
    void :> <<201>> @@ ccNZ :> <<192>> @@ ccNC :> <<208>> @@ ccPO :> <<224>> @@
    ccP :> <<240>> @@ ccZ :> <<200>> @@ ccC :> <<216>> @@ ccPE :> <<232>> @@
    ccM :> <<248>>

pushArgs ==
    regBC :> <<197>> @@ regDE :> <<213>> @@ regHL :> <<229>> @@ regAF :> <<245>>

addArgs ==
    arg2(regHL, regBC) :> <<9>> @@ arg2(regHL, regDE) :> <<25>> @@
    arg2(regHL, regHL) :> <<41>> @@ arg2(regHL, regSP) :> <<57>> @@
    arg2(regA, const8) :> <<198>>

bitArgs ==
    joinOpts(stdOpts(val00h, 64, <<203>>),
    joinOpts(stdOpts(val01h, 72, <<203>>),
    joinOpts(stdOpts(val02h, 80, <<203>>),
    joinOpts(stdOpts(val03h, 88, <<203>>),
    joinOpts(stdOpts(val04h, 96, <<203>>),
    joinOpts(stdOpts(val05h, 104, <<203>>),
    joinOpts(stdOpts(val06h, 112, <<203>>),
             stdOpts(val07h, 120, <<203>>))))))))

incArgs ==
    regA :> <<60>> @@ regB :> <<4>> @@ regC :> <<12>> @@ regD :> <<20>> @@
    regE :> <<28>> @@ regH :> <<36>> @@ regL :> <<44>> @@ regBC :> <<3>> @@
    regDE :> <<19>> @@ regHL :> <<35>> @@ regSP :> <<51>> @@
    indHL :> <<52>>

decArgs ==
    regA :> <<61>> @@ regB :> <<5>> @@ regC :> <<13>> @@ regD :> <<21>> @@
    regE :> <<29>> @@ regH :> <<37>> @@ regL :> <<45>> @@ regBC :> <<11>> @@
    regDE :> <<27>> @@ regHL :> <<43>> @@ regSP :> <<59>> @@
    indHL :> <<53>>

exArgs ==
    arg2(regAF, regAF2) :> <<8>> @@ arg2(indSP, regHL) :> <<227>> @@
    arg2(regDE, regHL) :> <<235>>

popArgs ==
    regBC :> <<193>> @@ regDE :> <<209>> @@ regHL :> <<225>> @@
    regAF :> <<241>>

callArgs ==
    arg2(ccNZ, addr16) :> <<196>> @@ arg2(ccNC, addr16) :> <<212>> @@
    arg2(ccPO, addr16) :> <<228>> @@ arg2(ccP, addr16) :> <<244>> @@
    arg2(ccZ, addr16) :> <<204>> @@ arg2(ccC, addr16) :> <<220>> @@
    arg2(ccPE, addr16) :> <<236>> @@ arg2(ccM, addr16) :> <<252>> @@
    addr16 :> <<205>>

rstArgs ==
    val00h :> <<199>> @@ val10h :> <<215>> @@ val20h :> <<231>> @@
    val30h :> <<247>> @@ val08h :> <<207>> @@ val18h :> <<223>> @@
    val28h :> <<239>> @@ val38h :> <<255>>

inArgs ==
    arg2(regA, port8) :> <<219>> @@ arg2(regB, portC) :> <<237, 64>> @@
    arg2(regD, portC) :> <<237, 80>> @@ arg2(regH, portC) :> <<237, 96>> @@
    arg2(regC, portC) :> <<237, 72>> @@ arg2(regE, portC) :> <<237, 88>> @@
    arg2(regL, portC) :> <<237, 104>> @@ arg2(regA, portC) :> <<237, 120>>

outArgs ==
    arg2(port8, regA) :> <<211>> @@ arg2(portC, regB) :> <<237, 65>> @@
    arg2(portC, regD) :> <<237, 81>> @@ arg2(portC, regH) :> <<237, 97>> @@
    arg2(portC, regC) :> <<237, 73>> @@ arg2(portC, regE) :> <<237, 89>> @@
    arg2(portC, regL) :> <<237, 105>> @@ arg2(portC, regA) :> <<237, 121>>

imArgs ==
    val00h :> <<237, 70>> @@ val01h :> <<237, 86>> @@
    val02h :> <<237, 94>>

adcArgs ==
    arg2(regA, const8) :> <<206>> @@ arg2(regHL, regBC) :> <<237, 74>> @@
    arg2(regHL, regDE) :> <<237, 90>> @@ arg2(regHL, regHL) :> <<237, 106>> @@
    arg2(regHL, regSP) :> <<237, 122>>

sbcArgs ==
    arg2(regA, const8) :> <<222>> @@ arg2(regHL, regBC) :> <<237, 66>> @@
    arg2(regHL, regDE) :> <<237, 82>> @@ arg2(regHL, regHL) :> <<237, 98>> @@
    arg2(regHL, regSP) :> <<237, 114>>

resArgs ==
    joinOpts(stdOpts(val00h, 128, <<203>>),
    joinOpts(stdOpts(val01h, 136, <<203>>),
    joinOpts(stdOpts(val02h, 144, <<203>>),
    joinOpts(stdOpts(val03h, 152, <<203>>),
    joinOpts(stdOpts(val04h, 160, <<203>>),
    joinOpts(stdOpts(val05h, 168, <<203>>),
    joinOpts(stdOpts(val06h, 176, <<203>>),
             stdOpts(val07h, 184, <<203>>))))))))

setArgs ==
    joinOpts(stdOpts(val00h, 192, <<203>>),
    joinOpts(stdOpts(val01h, 200, <<203>>),
    joinOpts(stdOpts(val02h, 208, <<203>>),
    joinOpts(stdOpts(val03h, 216, <<203>>),
    joinOpts(stdOpts(val04h, 224, <<203>>),
    joinOpts(stdOpts(val05h, 232, <<203>>),
    joinOpts(stdOpts(val06h, 240, <<203>>),
             stdOpts(val07h, 248, <<203>>))))))))

\* commandsArgs
commandsArgs ==
    [inc |-> incArgs,
     dec |-> decArgs,
     djnz |-> reladdr8 :> <<16>>,
     sub |-> joinOpts(stdOpts(0, 144, <<>>), const8 :> <<214>>),
     and |-> joinOpts(stdOpts(0, 160, <<>>), const8 :> <<230>>),
     xor |-> joinOpts(stdOpts(0, 168, <<>>), const8 :> <<238>>),
     or |-> joinOpts(stdOpts(0, 176, <<>>), const8 :> <<246>>),
     cp |-> joinOpts(stdOpts(0, 184, <<>>), const8 :> <<254>>),
     rlc |-> stdOpts(0, 0, <<203>>),
     rrc |-> stdOpts(0, 8, <<203>>),
     rl |-> stdOpts(0, 16, <<203>>),
     rr |-> stdOpts(0, 24, <<203>>),
     sla |-> stdOpts(0, 32, <<203>>),
     sra |-> stdOpts(0, 40, <<203>>),
     srl |-> stdOpts(0, 56, <<203>>),
     ld |-> joinOpts(ldArgs,
              joinOpts(stdOpts(regB, 64, <<>>),
              joinOpts(stdOpts(regD, 80, <<>>),
              joinOpts(stdOpts(regH, 96, <<>>),
              joinOpts(rmOpt(stdOpts(indHL, 112, <<>>), arg2(indHL, indHL)),
              joinOpts(stdOpts(regC, 72, <<>>),
              joinOpts(stdOpts(regE, 88, <<>>),
              joinOpts(stdOpts(regL, 104, <<>>),
                       stdOpts(regA, 120, <<>>))))))))),
     ex |-> exArgs,
     push |-> pushArgs,
     pop |-> popArgs,
     add |-> joinOpts(addArgs, stdOpts(regA, 128, <<>>)),
     adc |-> joinOpts(adcArgs, stdOpts(regA, 136, <<>>)),
     sbc |-> joinOpts(sbcArgs, stdOpts(regA, 152, <<>>)),
     call |-> callArgs,
     jp |-> jpArgs,
     jr |-> jrArgs,
     ret |-> retArgs,
     rst |-> rstArgs,
     bit |-> bitArgs,
     res |-> resArgs,
     set |-> setArgs,
     in |-> inArgs,
     out |-> outArgs,
     im |-> imArgs]

\* baseCommandTable
baseCommandTable ==
    [org |-> [kind |-> "org", n |-> 0],
     db |-> [kind |-> "data", n |-> const8],
     dw |-> [kind |-> "data", n |-> const16],
     ds |-> [kind |-> "data", n |-> argstring],
     const |-> [kind |-> "const", n |-> 0],
     include |-> [kind |-> "include", n |-> 0]]

\* commands0argNext1
commands0argNext1 ==
    [ldix |-> <<237, 164>>, ldws |-> <<237, 165>>, ldirx |-> <<237, 180>>,
     lddx |-> <<237, 172>>, lddrx |-> <<237, 188>>, ldpirx |-> <<237, 183>>,
     outinb |-> <<237, 144>>, swapnib |-> <<237, 35>>,
     pixeldn |-> <<237, 147>>, pixelan |-> <<237, 148>>,
     setae |-> <<237, 149>>]

\* commandsArgsNext1
commandsArgsNext1 ==
    [add |-> arg2(regHL, regA) :> <<237, 49>> @@ arg2(regDE, regA) :> <<237, 50>> @@
             arg2(regBC, regA) :> <<237, 51>> @@
             arg2(regHL, const16) :> <<237, 52>> @@
             arg2(regDE, const16) :> <<237, 53>> @@
             arg2(regBC, const16) :> <<237, 54>>,
     push |-> const16be :> <<237, 138>>]

\* commandsArgsNext2: the barrel shifts and jp (c).
commandsArgsNext2 ==
    [bsla |-> arg2(regDE, regB) :> <<237, 40>>,
     bsra |-> arg2(regDE, regB) :> <<237, 41>>,
     bsrl |-> arg2(regDE, regB) :> <<237, 42>>,
     bsrf |-> arg2(regDE, regB) :> <<237, 43>>,
     brlc |-> arg2(regDE, regB) :> <<237, 44>>,
     jp |-> portC :> <<237, 152>>]

ixMap == regHL :> regIX @@ indHL :> indIXplus

iyMap == regHL :> regIY @@ indHL :> indIYplus

\* The exclusions without the one of jp (hl).
ixyExcludes_NoJp ==
    [ex |-> {arg2(regDE, regHL)}, sll |-> {indHL}]

ixyExcludes ==
    [ex |-> {arg2(regDE, regHL)}, jp |-> {indHL}, sll |-> {indHL}]

doRename(a, rename) ==
    LET R(x) == IF x \in DOMAIN rename THEN rename[x] ELSE x
    IN  R(a \div 1024) * 1024 + R(a % 1024)

\* replaceCommands: the variants that the renaming changes, renamed and
\* prefixed.
replaceCommands(cmds, rename, prefix, exclude) ==
    LET Kept(k) ==
            {as \in DOMAIN cmds[k] :
                /\ ~(k \in DOMAIN exclude /\ as \in exclude[k])
                /\ doRename(as, rename) # as}
        From(k, v) == CHOOSE as \in Kept(k) : doRename(as, rename) = v
    IN  [k \in {c \in DOMAIN cmds : Kept(c) # {}} |->
            [v \in {doRename(as, rename) : as \in Kept(k)} |->
                <<prefix>> \o cmds[k][From(k, v)]]]

RECURSIVE joinVariants(_, _)

\* The inner loops of joinCommands for one mnemonic k.
joinVariants(cmdss, k) ==
    IF cmdss = <<>> THEN EmptyMap
    ELSE IF k \in DOMAIN Head(cmdss)
      THEN joinOpts(Head(cmdss)[k], joinVariants(Tail(cmdss), k))
    ELSE joinVariants(Tail(cmdss), k)

joinCommands(cmdss) ==
    [k \in UNION {DOMAIN cmdss[i] : i \in 1..Len(cmdss)} |->
        joinVariants(cmdss, k)]

ixCommands ==
    joinCommands(<<replaceCommands(commandsArgs, ixMap, 221, ixyExcludes),
                   [jp |-> indIX :> <<221, 233>>]>>)

iyCommands ==
    joinCommands(<<replaceCommands(commandsArgs, iyMap, 253, ixyExcludes),
                   [jp |-> indIY :> <<253, 233>>]>>)

\* The table of NewAssembler with the Next tables of every level merged in
\* whatever the core option.
cmdTable_Ungated(core) ==
    LET Table(cmd0s, cmds) ==
            [c \in (DOMAIN baseCommandTable) \cup (DOMAIN cmd0s)
                   \cup (DOMAIN cmds) |->
                IF c \in DOMAIN baseCommandTable THEN baseCommandTable[c]
                ELSE IF c \in DOMAIN cmd0s
                  THEN [kind |-> "instr", n |-> 0, args |-> void :> cmd0s[c]]
                ELSE [kind |-> "instr", n |-> 0, args |-> cmds[c]]]
    IN  Table(commands0arg @@ commands0argNext1,
              joinCommands(<<commandsArgs, ixCommands, iyCommands,
                             commandsArgsNext1, commandsArgsNext2>>))

\* The table NewAssembler builds for a core: the directives, the
\* argument-less instructions as a single void variant, the others; the Next
\* tables of the levels up to the core.
cmdTable(core) ==
    LET Table(cmd0s, cmds) ==
            [c \in (DOMAIN baseCommandTable) \cup (DOMAIN cmd0s)
                   \cup (DOMAIN cmds) |->
                IF c \in DOMAIN baseCommandTable THEN baseCommandTable[c]
                ELSE IF c \in DOMAIN cmd0s
                  THEN [kind |-> "instr", n |-> 0, args |-> void :> cmd0s[c]]
                ELSE [kind |-> "instr", n |-> 0, args |-> cmds[c]]]
    IN  Table(IF core > 0 THEN commands0arg @@ commands0argNext1
                          ELSE commands0arg,
              joinCommands(<<commandsArgs, ixCommands, iyCommands>>
                           \o (IF core > 0 THEN <<commandsArgsNext1>> ELSE <<>>)
                           \o (IF core > 1 THEN <<commandsArgsNext2>> ELSE <<>>)))

\* The tables of the three cores.
commandTables == [core \in Cores |-> cmdTable(core)]

\* asm.commandTable
commandTable(a) == commandTables[a.core]

\* strings.ToLower on the identifiers of the modelled sources.
ToLower(s) ==
    CASE s = "XOR" -> "xor" [] s = "LD" -> "ld" [] s = "DB" -> "db"
      [] s = "Xor" -> "xor" [] s = "A" -> "a" [] s = "HL" -> "hl"
      [] OTHER -> s

-----------------------------------------------------------------------------
(* The directives and the instruction assembler                            *)

\* setLabel recording the address after the label's.
setLabel_OffByOne(a, name, level) ==
    LET Assign(label, a1, fass) ==
            IF a.pass = 1
              THEN IF location(a) # fass
                     THEN Ret(scanErrorf(a, "label redefined", label), a1)
                     ELSE Ret(NoErr, a1)
              ELSE Ret(NoErr,
                       [a1 EXCEPT !.l = Put(@, label, uint16(a.pc + 1)),
                                  !.labelAssign =
                                      IF fass = NoLoc
                                        THEN Put(@, label, location(a))
                                        ELSE @])
        Named(label) ==
            Assign(label,
                   IF level = 0 THEN [a EXCEPT !.currentMajorLabel = name] ELSE a,
                   Get(a.labelAssign, label, NoLoc))
    IN  Named(IF level = 0 THEN name ELSE a.currentMajorLabel \o "." \o name)

\* setLabel that never reports a redefinition.
setLabel_Silent(a, name, level) ==
    LET Assign(label, a1, fass) ==
            IF a.pass = 1
              THEN Ret(NoErr, a1)
              ELSE Ret(NoErr,
                       [a1 EXCEPT !.l = Put(@, label, uint16(a.pc)),
                                  !.labelAssign =
                                      IF fass = NoLoc
                                        THEN Put(@, label, location(a))
                                        ELSE @])
        Named(label) ==
            Assign(label,
                   IF level = 0 THEN [a EXCEPT !.currentMajorLabel = name] ELSE a,
                   Get(a.labelAssign, label, NoLoc))
    IN  Named(IF level = 0 THEN name ELSE a.currentMajorLabel \o "." \o name)

\* Assembler.setLabel.  A label is assigned in pass 0 only; pass 1 compares
\* the place of the definition with the place recorded first.
setLabel(a, name, level) ==
    LET Assign(label, a1, fass) ==
            IF a.pass = 1
              THEN IF location(a) # fass
                     THEN Ret(scanErrorf(a, "label redefined", label), a1)
                     ELSE Ret(NoErr, a1)
              ELSE Ret(NoErr,
                       [a1 EXCEPT !.l = Put(@, label, uint16(a.pc)),
                                  !.labelAssign =
                                      IF fass = NoLoc
                                        THEN Put(@, label, location(a))
                                        ELSE @])
        Named(label) ==
            Assign(label,
                   IF level = 0 THEN [a EXCEPT !.currentMajorLabel = name] ELSE a,
                   Get(a.labelAssign, label, NoLoc))
    IN  Named(IF level = 0 THEN name ELSE a.currentMajorLabel \o "." \o name)

\* Assembler.assembleMinorLabel
assembleMinorLabel(a, fs) ==
    LET Name(n) ==
            IF n.err # NoErr THEN Ret(n.err, n.a)
            ELSE IF n.tok.t = "Ident" THEN setLabel(n.a, n.tok.s, 1)
            ELSE Ret(scanErrorf(n.a, "unexpected", TokString(n.tok)), n.a)
    IN  Name(nextToken(a, fs))

RECURSIVE cmdData_loop(_, _, _)

\* The loop of cmdData.W over the parsed arguments: each is evaluated and
\* written before the next one is looked at.
cmdData_loop(a, args, n) ==
    LET Written(w) ==
            IF w.err # NoErr THEN w ELSE cmdData_loop(w.a, Tail(args), n)
        Value(r) ==
            IF r.err # NoErr THEN Ret(r.err, a)
            ELSE IF ~r.ok THEN Ret(scanErrorf(a, "bad data value", ""), a)
            ELSE Written(writeBytes(a, r.bs))
    IN  IF args = <<>> THEN Ret(NoErr, a)
        ELSE Value(evalAs(a, Head(args), n, FALSE))

\* cmdData.W
cmdData_W(a, fs, n) ==
    LET Parsed(p) ==
            IF p.err # NoErr THEN Ret(p.err, p.a)
            ELSE cmdData_loop(p.a, p.args, n)
    IN  Parsed(parseArgs(a, fs, TRUE))

\* commandOrg.W
commandOrg_W(a, fs) ==
    LET Target(a1, n, t) ==
            IF t.err # NoErr THEN Ret(t.err, a1)
            ELSE IF ~t.ok
              THEN Ret(scanErrorf(a1,
                   "org second (target) argument should be an address", ""), a1)
            ELSE IF t.v < 0 \/ t.v >= 1024 * 1024 * 2
              THEN Ret(scanErrorf(a1,
                   "org second (target) argument out of range", ""), a1)
            ELSE Ret(NoErr, [a1 EXCEPT !.pc = n.v, !.target = t.v])
        Pc(a1, n, arg1) ==
            IF n.err # NoErr THEN Ret(n.err, a1)
            ELSE IF ~n.ok
              THEN Ret(scanErrorf(a1,
                   "org first (pc) argument should be an address", ""), a1)
            ELSE IF n.v < 0 \/ n.v >= 65536
              THEN Ret(scanErrorf(a1,
                   "org first (pc) argument out of range", ""), a1)
            ELSE Target(a1, n, getIntValue(a1, arg1))
        Parsed(p, args) ==
            IF p.err # NoErr THEN Ret(p.err, p.a)
            ELSE IF Len(args) < 1 \/ Len(args) > 2
              THEN Ret(scanErrorf(p.a, "org takes one or two arguments", ""), p.a)
            ELSE Pc(p.a, getIntValue(p.a, args[1]),
                    IF Len(args) >= 2 THEN args[2] ELSE args[1])
        Args(p) == Parsed(p, p.args)
    IN  Args(parseArgs(a, fs, TRUE))

getIdent(e) ==
    IF e.k = "ident"
      THEN IF e.cc # 0 \/ e.r # 0
             THEN [id |-> "", err |-> Err(NoLoc, "expected identifier, got register or condition code", "")]
             ELSE [id |-> e.id, err |-> NoErr]
      ELSE [id |-> "", err |-> Err(NoLoc, "expected identifier, got", "")]

\* commandConst.W keeping the value a constant already has.
commandConst_W_KeepFirst(a, fs) ==
    LET Define(a1, id, n) ==
            IF n.err # NoErr THEN Ret(n.err, a1)
            ELSE IF ~n.ok
              THEN Ret(scanErrorf(a1, "failed to evaluate const", id), a1)
            ELSE IF id \in a1.constsDef
              THEN Ret(scanErrorf(a1, "redefining", id), a1)
            ELSE Ret(NoErr, [a1 EXCEPT !.constsDef = @ \cup {id},
                                       !.consts = IF Has(@, id) THEN @
                                                  ELSE Put(@, id, n.v)])
        Named(a1, name, e) ==
            IF name.err # NoErr THEN Ret(name.err, a1)
            ELSE Define(a1, name.id, getIntValue(a1, e))
        Parsed(p, args) ==
            IF p.err # NoErr THEN Ret(p.err, p.a)
            ELSE IF Len(args) # 2
              THEN Ret(scanErrorf(p.a,
                   "expected syntax: const <ident> = <value>", ""), p.a)
            ELSE Named(p.a, getIdent(args[1]), args[2])
        Args(p) == Parsed(p, p.args)
    IN  Args(parseSepArgs(a, fs, "=", FALSE))

\* commandConst.W
commandConst_W(a, fs) ==
    LET Define(a1, id, n) ==
            IF n.err # NoErr THEN Ret(n.err, a1)
            ELSE IF ~n.ok
              THEN Ret(scanErrorf(a1, "failed to evaluate const", id), a1)
            ELSE IF id \in a1.constsDef
              THEN Ret(scanErrorf(a1, "redefining", id), a1)
            ELSE Ret(NoErr, [a1 EXCEPT !.constsDef = @ \cup {id},
                                       !.consts = Put(@, id, n.v)])
        Named(a1, name, e) ==
            IF name.err # NoErr THEN Ret(name.err, a1)
            ELSE Define(a1, name.id, getIntValue(a1, e))
        Parsed(p, args) ==
            IF p.err # NoErr THEN Ret(p.err, p.a)
            ELSE IF Len(args) # 2
              THEN Ret(scanErrorf(p.a,
                   "expected syntax: const <ident> = <value>", ""), p.a)
            ELSE Named(p.a, getIdent(args[1]), args[2])
        Args(p) == Parsed(p, p.args)
    IN  Args(parseSepArgs(a, fs, "=", FALSE))

\* commandInclude.W (getString inline)
commandInclude_W(a, fs) ==
    LET Parsed(p) ==
            IF p.err # NoErr THEN Ret(p.err, p.a)
            ELSE IF Len(p.args) # 1 \/ p.args[1].k # "str"
              THEN Ret(scanErrorf(p.a,
                   "expected filename.asm to follow include", ""), p.a)
            ELSE pushScanner(p.a, fs, p.args[1].s)
    IN  Parsed(parseArgs(a, fs, FALSE))

\* The matching variant written as the fixed bytes bs and then the argument
\* bytes.
writeVariant_ArgsLast(a, bs, argData) ==
    LET Data(w1) ==
            IF w1.err # NoErr THEN w1 ELSE writeBytes(w1.a, argData)
    IN  Data(writeBytes(a, bs))

\* The body of commandAssembler.W for a matching variant: the fixed bytes bs
\* with the argument bytes after the first two of them.
writeVariant(a, bs, argData) ==
    LET Rest(n, w2) ==
            IF w2.err # NoErr THEN w2
            ELSE writeBytes(w2.a, SubSeq(bs, n + 1, Len(bs)))
        Data(n, w1) ==
            IF w1.err # NoErr THEN w1 ELSE Rest(n, writeBytes(w1.a, argData))
        Prefix(n) == Data(n, writeBytes(a, SubSeq(bs, 1, n)))
    IN  Prefix(IF Len(bs) > 2 THEN 2 ELSE Len(bs))

\* commandAssembler.W: what it can return.  Go ranges over the variants of
\* the instruction in an unspecified order, so when one variant matches and
\* another one fails to evaluate, either may come first.
commandAssembler_W(a, fs, tbl) ==
    LET Outcomes(a1, res, Match, Bad, Written) ==
            IF Bad = {}
              THEN IF Match = {}
                     THEN {Ret(scanErrorf(a1, "no suitable form found", ""), a1)}
                   ELSE IF Cardinality(Match) > 1 THEN {Ret(Fatal, a1)}
                   ELSE Written
            ELSE {Ret(res[v].err, a1) : v \in Bad}
                 \cup {IF w.err # NoErr THEN w ELSE Ret(res[v].err, w.a) :
                         w \in Written, v \in Bad}
                 \cup (IF Cardinality(Match) > 1 THEN {Ret(Fatal, a1)} ELSE {})
        Variants(a1, res, Match, Bad) ==
            Outcomes(a1, res, Match, Bad,
                     {writeVariant(a1, tbl[v], res[v].bs) : v \in Match})
        Compatible(a1, res) ==
            Variants(a1, res,
                     {v \in DOMAIN tbl : res[v].err = NoErr /\ res[v].ok},
                     {v \in DOMAIN tbl : res[v].err # NoErr})
        Parsed(p) ==
            IF p.err # NoErr THEN {Ret(p.err, p.a)}
            ELSE Compatible(p.a,
                            [v \in DOMAIN tbl |-> argsCompatible(p.a, p.args, v)])
    IN  Parsed(parseArgs(a, fs, FALSE))

-----------------------------------------------------------------------------
(* The statement loop: Assembler.assemble called from assembleFile         *)

RECURSIVE Drain(_, _)

\* The recovery loop of assembleFile: skip tokens until the token recorded
\* last ends a statement.
Drain(a, fs) ==
    IF canContinue(a) /\ ~endStatement(a.lastToken)
      THEN Drain(nextToken(a, fs).a, fs)
      ELSE a

\* asm.location() where there is a scanner, for the history.
LocOf(a) == IF Len(a.scanners) = 0 THEN NoLoc ELSE location(a)

\* The bytes a statement left in memory from the target it started at.
Out(a, a2) ==
    IF a2.target > a.target /\ a2.target - a.target = a2.pc - a.pc
      THEN [i \in 1..(a2.target - a.target) |-> MemAt(a2, a.target + i - 1)]
      ELSE <<>>

\* One history entry: a statement that started with token tok in state asm
\* and ended with result o (org moves the target and writes nothing).
Entry(kind, name, args, n, o) ==
    [rem |-> Len(calls), pass |-> asm.pass, kind |-> kind, name |-> name,
     args |-> args,
     major |-> asm.currentMajorLabel, pc |-> asm.pc, target |-> asm.target,
     pc2 |-> o.a.pc, target2 |-> o.a.target,
     out |-> IF name = "org" THEN <<>> ELSE Out(asm, o.a),
     err |-> o.err, len |-> asm.m.len, len2 |-> o.a.m.len,
     loc |-> LocOf(n.a), loc2 |-> LocOf(o.a),
     consts |-> asm.consts, constsDef |-> asm.constsDef]

\* What assembleFile does with the result o of one iteration of assemble's
\* loop: nil continues the loop; an error is recorded, the rest of the
\* statement is skipped, and assemble is called again unless the scanner
\* failed or MaxErrors errors were recorded.  done: assemble returned nil.
AfterStmt(o, done, entry) ==
    LET Recover(a2) ==
            /\ asm' = a2
            /\ errs' = Append(errs, o.err)
            /\ ctl' = IF canContinue(a2) /\ Len(errs) + 1 < MaxErrors
                        THEN "run" ELSE "passEnd"
    IN  /\ obs' = [obs EXCEPT !.log = Append(@, entry)]
        /\ UNCHANGED <<files, fname, saved, result, calls>>
        /\ IF o.err \in {Panic, Fatal}
             THEN /\ ctl' = "crashed"
                  /\ errs' = errs
                  /\ asm' = IF o.err = Panic
                              THEN [o.a EXCEPT !.pc = saved.pc,
                                               !.target = saved.target]
                              ELSE o.a
           ELSE IF o.err = NoErr
             THEN /\ asm' = o.a
                  /\ errs' = errs
                  /\ ctl' = IF done THEN "passEnd" ELSE "run"
           ELSE Recover(Drain(o.a, files))

\* The first token of the next iteration of assemble's loop.
First == nextToken(asm, files)

IsCommand(tok, kind) ==
    /\ tok.t = "Ident"
    /\ ToLower(tok.s) \in DOMAIN commandTable(asm)
    /\ commandTable(asm)[ToLower(tok.s)].kind = kind

\* One iteration that ends with result o and the history entry of its kind.
Stmt(kind, name, args, n, o, done) ==
    AfterStmt(o, done, Entry(kind, name, args, n, o))

\* nextToken fails: the scanner reported a lexical error.
StmtScanError ==
    LET Do(n) ==
            /\ n.err # NoErr
            /\ Stmt("scanerr", "", <<>>, n, Ret(n.err, n.a), FALSE)
    IN  ctl = "run" /\ Do(First)

\* case scanner.EOF: pop the scanner; assemble returns nil when it was the last.
StmtEOF ==
    LET Popped(n, p) == Stmt("EOF", "", <<>>, n, Ret(NoErr, p.a), p.done)
        Do(n) ==
            /\ n.err = NoErr /\ n.tok.t = "EOF"
            /\ Popped(n, popScanner(n.a))
    IN  ctl = "run" /\ Do(First)

CmdOrg ==
    LET Do(n) ==
            /\ n.err = NoErr /\ IsCommand(n.tok, "org")
            /\ Stmt("cmd", "org", parseArgs(n.a, files, TRUE).args, n,
                    commandOrg_W(n.a, files), FALSE)
    IN  ctl = "run" /\ Do(First)

CmdData ==
    LET Cmd(n, c) ==
            Stmt("cmd", c, parseArgs(n.a, files, TRUE).args, n,
                 cmdData_W(n.a, files, commandTable(n.a)[c].n), FALSE)
        Do(n) ==
            /\ n.err = NoErr /\ IsCommand(n.tok, "data")
            /\ Cmd(n, ToLower(n.tok.s))
    IN  ctl = "run" /\ Do(First)

CmdConst ==
    LET Do(n) ==
            /\ n.err = NoErr /\ IsCommand(n.tok, "const")
            /\ Stmt("cmd", "const", parseSepArgs(n.a, files, "=", FALSE).args,
                    n, commandConst_W(n.a, files), FALSE)
    IN  ctl = "run" /\ Do(First)

CmdInclude ==
    LET Do(n) ==
            /\ n.err = NoErr /\ IsCommand(n.tok, "include")
            /\ Stmt("cmd", "include", parseArgs(n.a, files, FALSE).args, n,
                    commandInclude_W(n.a, files), FALSE)
    IN  ctl = "run" /\ Do(First)

CmdInstr ==
    LET Cmd(n, c, args) ==
            \E o \in commandAssembler_W(n.a, files, commandTable(n.a)[c].args) :
                Stmt("cmd", c, args, n, o, FALSE)
        Do(n) ==
            /\ n.err = NoErr /\ IsCommand(n.tok, "instr")
            /\ Cmd(n, ToLower(n.tok.s), parseArgs(n.a, files, FALSE).args)
    IN  ctl = "run" /\ Do(First)

\* An identifier that is no command: a major label when ':' follows.
majorLabel(n, fs) ==
    LET Colon(c) ==
            IF c.err # NoErr THEN Ret(c.err, c.a)
            ELSE IF c.tok.t # ":"
              THEN Ret(scanErrorf(c.a, "unknown command", n.tok.s), c.a)
            ELSE setLabel(c.a, n.tok.s, 0)
    IN  Colon(nextToken(n.a, fs))

StmtMajorLabel ==
    LET Do(n) ==
            /\ n.err = NoErr /\ n.tok.t = "Ident"
            /\ ToLower(n.tok.s) \notin DOMAIN commandTable(n.a)
            /\ Stmt("major", n.tok.s, <<>>, n, majorLabel(n, files), FALSE)
    IN  ctl = "run" /\ Do(First)

StmtSeparator ==
    LET Do(n) ==
            /\ n.err = NoErr /\ n.tok.t \in {";", "\n"}
            /\ Stmt("sep", "", <<>>, n, Ret(NoErr, n.a), FALSE)
    IN  ctl = "run" /\ Do(First)

StmtMinorLabel ==
    LET Do(n) ==
            /\ n.err = NoErr /\ n.tok.t = "."
            /\ Stmt("minor", TokString(nextToken(n.a, files).tok), <<>>, n,
                    assembleMinorLabel(n.a, files), FALSE)
    IN  ctl = "run" /\ Do(First)

\* default: any other token cannot start a statement.
StmtUnexpected ==
    LET Do(n) ==
            /\ n.err = NoErr
            /\ n.tok.t \notin {"EOF", "Ident", ";", "\n", "."}
            /\ Stmt("unexpected", "", <<>>, n,
                    Ret(scanErrorf(n.a, "unexpected", TokString(n.tok)), n.a),
                    FALSE)
    IN  ctl = "run" /\ Do(First)

-----------------------------------------------------------------------------
(* The two passes: Assembler.AssembleFile and assembleFile                 *)

\* The start of a pass that keeps the pc and the target of the pass before.
BeginPass_NoRestore(a, p, f, sv) ==
    LET Pushed(ps) ==
            /\ asm' = ps.a
            /\ errs' = IF ps.err # NoErr THEN <<ps.err>> ELSE <<>>
            /\ ctl' = IF ps.err = NoErr /\ canContinue(ps.a)
                        THEN "run" ELSE "passEnd"
            /\ obs' = [obs EXCEPT !.open[p] = (ps.err = NoErr),
                                  !.e0 = IF p = 1 THEN errs ELSE @]
    IN  Pushed(pushScanner([a EXCEPT !.pass = p, !.currentMajorLabel = "",
                                     !.constsDef = {}],
                           files, f))

\* The start of one pass: AssembleFile resets the pass state and assembleFile
\* pushes the scanner of the file.  When that fails assembleFile returns the
\* error at once; otherwise it enters its loop, which a stale scanner error
\* ends at once.
BeginPass(a, p, f, sv) ==
    LET Pushed(ps) ==
            /\ asm' = ps.a
            /\ errs' = IF ps.err # NoErr THEN <<ps.err>> ELSE <<>>
            /\ ctl' = IF ps.err = NoErr /\ canContinue(ps.a)
                        THEN "run" ELSE "passEnd"
            /\ obs' = [obs EXCEPT !.open[p] = (ps.err = NoErr),
                                  !.e0 = IF p = 1 THEN errs ELSE @]
    IN  Pushed(pushScanner([a EXCEPT !.pc = sv.pc, !.target = sv.target,
                                     !.pass = p, !.currentMajorLabel = "",
                                     !.constsDef = {}],
                           files, f))

\* AssembleFile(filename) is called: pass 0 begins.
AssembleFile(f) ==
    /\ ctl \in {"idle", "returned"}
    /\ fname' = f
    /\ saved' = [pc |-> asm.pc, target |-> asm.target]
    /\ BeginPass(asm, 0, f, saved')
    /\ UNCHANGED <<files, result>>

\* The client makes its next call.
Call ==
    /\ calls # <<>>
    /\ AssembleFile(Head(calls))
    /\ calls' = Tail(calls)

\* assembleFile returned in pass 0: whatever it returned is dropped and
\* pass 1 begins.
NextPass ==
    /\ ctl = "passEnd"
    /\ asm.pass = 0
    /\ BeginPass(asm, 1, fname, saved)
    /\ UNCHANGED <<files, fname, saved, result, calls>>

\* assembleFile returned in pass 1: AssembleFile returns its error (the
\* recorded lines joined, <<>> for nil) and the deferred function restores
\* pc and target.
Return ==
    /\ ctl = "passEnd"
    /\ asm.pass = 1
    /\ result' = errs
    /\ asm' = [asm EXCEPT !.pc = saved.pc, !.target = saved.target]
    /\ ctl' = "returned"
    /\ UNCHANGED <<files, fname, saved, errs, calls, obs>>

-----------------------------------------------------------------------------
(* Sources                                                                 *)

RECURSIVE Join(_)
\* Statements joined by ';' into one token sequence.
Join(stmts) ==
    IF stmts = <<>> THEN <<>>
    ELSE IF Len(stmts) = 1 THEN stmts[1]
    ELSE stmts[1] \o <<TP(";")>> \o Join(Tail(stmts))

Minor(x) == <<TP("."), TIdent(x)>>
Major(x) == <<TIdent(x), TP(":")>>
Cmd1(c, t) == <<TIdent(c), t>>
Cmd2(c, t1, t2) == <<TIdent(c), t1, TP(","), t2>>

\* The included file.
IncFile == Join(<<Minor("y"), Cmd2("db", TInt(1), TInt(2))>>)

\* Programs taken from the tests and the documentation of the repository.
TestSources ==
    { \* ld a, (x) ; .x db 1, 2
      Join(<<<<TIdent("ld"), TIdent("a"), TP(","), TP("("), TIdent("x"), TP(")")>>,
             Minor("x") \o Cmd2("db", TInt(1), TInt(2))>>),
      \* .x ld hl, 42 ; .x ld bc, 42
      Join(<<Minor("x") \o Cmd2("ld", TIdent("hl"), TInt(42)),
             Minor("x") \o Cmd2("ld", TIdent("bc"), TInt(42))>>),
      \* ld a, k ; const k = 42
      Join(<<Cmd2("ld", TIdent("a"), TIdent("k")),
             <<TIdent("const"), TIdent("k"), TP("="), TInt(42)>>>>),
      \* ld hl, 6/(4-4)
      <<TIdent("ld"), TIdent("hl"), TP(","), TInt(6), TP("/"), TP("("),
        TInt(4), TP("-"), TInt(4), TP(")")>>,
      \* include "b.asm" \n jp y
      <<TIdent("include"), TStr("b.asm"), TP("\n"), TIdent("jp"), TIdent("y")>>,
      \* org 0x100 ; XOR a ; && foo
      Join(<<Cmd1("org", TInt(256)), Cmd1("XOR", TIdent("a")),
             <<TP("&&"), TIdent("foo")>>>>),
      \* an unterminated string
      Join(<<Cmd1("xor", TIdent("a")), <<TIdent("ds"), TBad>>>>),
      \* a character that starts no token, at the start of a statement
      Join(<<Cmd1("xor", TIdent("a")), <<TBad>>>>)
    }

\* org 65535 ; db 1 ; .x ; dw x   (the pc passes 65535)
WrapSource ==
    Join(<<Cmd1("org", TInt(65535)), Cmd1("db", TInt(1)), Minor("x"),
           Cmd1("dw", TIdent("x"))>>)

\* All sequences of 1..n elements of S.
Seqs(S, n) == UNION {[1..k -> S] : k \in 1..n}

\* The statements of the small programs.
SmallStmts ==
    { Minor("x"), Major("f"), Cmd1("xor", TIdent("a")), Cmd1("dw", TIdent("x")),
      Cmd1("org", TIdent("x")), Cmd1("jp", TIdent("x")) }

SmallSources == {Join(ss) : ss \in Seqs(SmallStmts, MaxStmts)}

\* The statements of the programs about label scopes.
ScopeStmts ==
    { Major("f"), Major("g"), Major("x"), Minor("x"), Cmd1("dw", TIdent("x")) }

ScopeSources == {Join(ss) : ss \in Seqs(ScopeStmts, MaxScope)}

\* Programs with many errors: r times the same statement, then a tail.
RECURSIVE Rep(_, _)
Rep(st, r) == IF r = 0 THEN <<>> ELSE <<st>> \o Rep(st, r - 1)

XorAB == Cmd2("xor", TIdent("a"), TIdent("b"))
JpMissing == Cmd1("jp", TIdent("missing"))
\* org x - 1
OrgXm1 == <<TIdent("org"), TIdent("x"), TP("-"), TInt(1)>>
\* db 1 / 0
DbDiv0 == <<TIdent("db"), TInt(1), TP("/"), TInt(0)>>
\* && foo
AndAndFoo == <<TP("&&"), TIdent("foo")>>
ConstK == <<TIdent("const"), TIdent("k"), TP("="), TInt(5)>>
DbK == Cmd1("db", TIdent("k"))
\* db 1 || k
DbOrK == <<TIdent("db"), TInt(1), TP("||"), TIdent("k")>>
\* db 256, k
Db256K == Cmd2("db", TInt(256), TIdent("k"))
XorA == Cmd1("xor", TIdent("a"))

RepStmts == {XorAB, JpMissing, OrgXm1}

Tails ==
    { <<>>, <<Minor("x")>>, <<Minor("x"), Minor("x")>>, <<XorA, AndAndFoo>>,
      <<DbDiv0, XorA>>, <<DbK, ConstK>>, <<ConstK, DbK>>, <<DbOrK, ConstK>>,
      <<Db256K, ConstK>>, <<DbK, ConstK, DbK>>,
      <<Cmd1("org", TInt(65535)), Cmd2("db", TInt(1), TInt(2))>>,
      <<Cmd1("ds", TBad), XorAB>> }

ErrSources ==
    {Join(Rep(st, r) \o tl) : st \in RepStmts, r \in 0..MaxRep, tl \in Tails}
        \ {<<>>}

RECURSIVE Split(_)
\* The statements of a token sequence: the runs between ';' and newline.
Split(toks) ==
    IF \A i \in 1..Len(toks) : toks[i].t \notin {";", "\n"} THEN <<toks>>
    ELSE LET i == CHOOSE j \in 1..Len(toks) :
                      /\ toks[j].t \in {";", "\n"}
                      /\ \A h \in 1..(j - 1) : toks[h].t \notin {";", "\n"}
         IN  <<SubSeq(toks, 1, i - 1)>> \o Split(SubSeq(toks, i + 1, Len(toks)))

FileSystem(src) == [f \in {"a.asm", "b.asm"} |-> IF f = "a.asm" THEN src ELSE IncFile]

\* The files AssembleFile is called on: the program, and a file that is missing.
CallFiles == {"a.asm", "none.asm"}

NoObs == [log |-> <<>>, e0 |-> <<>>, open |-> [p \in {0, 1} |-> FALSE]]

-----------------------------------------------------------------------------
(* The specification                                                       *)

\* The state after NewAssembler with one of the core options, the files of
\* one of the systems, and a client that makes one of the call sequences.
InitFiles(Systems, cores, Calls) ==
    /\ files \in Systems
    /\ asm \in {NewAssembler(core) : core \in cores}
    /\ ctl = "idle"
    /\ fname = ""
    /\ saved = [pc |-> 0, target |-> 0]
    /\ errs = <<>>
    /\ result = <<>>
    /\ calls \in Calls
    /\ obs = NoObs

\* One call, on the program or on the missing file.
InitOn(Sources, cores) ==
    InitFiles({FileSystem(src) : src \in Sources}, cores,
              {<<f>> : f \in CallFiles})

InitWith(Sources) == InitOn(Sources, {Z80CoreStandard})

Next ==
    \/ Call
    \/ StmtScanError
    \/ StmtEOF
    \/ CmdOrg
    \/ CmdData
    \/ CmdConst
    \/ CmdInclude
    \/ CmdInstr
    \/ StmtMajorLabel
    \/ StmtSeparator
    \/ StmtMinorLabel
    \/ StmtUnexpected
    \/ NextPass
    \/ Return

\* Small programs.
Init == InitWith(SmallSources \cup TestSources \cup {WrapSource})

Spec == Init /\ [][Next]_vars

\* Programs about label scopes.
InitScope == InitWith(ScopeSources \cup TestSources)

SpecScope == InitScope /\ [][Next]_vars

\* Programs with many errors.
InitErr == InitWith(ErrSources \cup TestSources)

SpecErr == InitErr /\ [][Next]_vars

\* Programs about constants computed from labels: up to MaxConst statements.
MaxConst == 4

\* const k = x + 1
ConstKX1 ==
    <<TIdent("const"), TIdent("k"), TP("="), TIdent("x"), TP("+"), TInt(1)>>
DwK == Cmd1("dw", TIdent("k"))

ConstStmts ==
    { Cmd1("org", TInt(32768)), Cmd1("org", TIdent("x")), ConstKX1, DwK,
      Minor("x"), Cmd1("xor", TIdent("a")) }

ConstSources == {Join(ss) : ss \in Seqs(ConstStmts, MaxConst)}

InitConst == InitWith(ConstSources \cup TestSources)

SpecConst == InitConst /\ [][Next]_vars

\* Programs about org and the memory image: up to MaxOrg statements.
MaxOrg == 4

\* org 0x1000, 0x8000
OrgReloc == Cmd2("org", TInt(4096), TInt(32768))
\* org 0, 65536 and org 0, 65537: targets beyond the initial memory
OrgEnd == Cmd2("org", TInt(0), TInt(65536))
OrgPast == Cmd2("org", TInt(0), TInt(65537))
DbFF == Cmd1("db", TInt(255))

OrgStmts ==
    { OrgReloc, OrgEnd, OrgPast, Cmd1("org", TIdent("x")), DbFF, Minor("x"),
      Cmd1("dw", TIdent("x")) }

\* The two-value org example of the README:
\* org 0x9000, 0xff0000 ; .x ; db 1, 2, 3, 4 ; dw x
ReadmeOrg ==
    Join(<<Cmd2("org", TInt(36864), TInt(16711680)), Minor("x"),
           <<TIdent("db"), TInt(1), TP(","), TInt(2), TP(","), TInt(3),
             TP(","), TInt(4)>>,
           Cmd1("dw", TIdent("x"))>>)

OrgSources == {Join(ss) : ss \in Seqs(OrgStmts, MaxOrg)} \cup {ReadmeOrg}

InitOrg == InitWith(OrgSources \cup TestSources)

SpecOrg == InitOrg /\ [][Next]_vars

\* Programs about relative jumps: up to MaxJr statements.
MaxJr == 3

JrX == Cmd1("jr", TIdent("x"))
DjnzX == Cmd1("djnz", TIdent("x"))
JrNzX == Cmd2("jr", TIdent("nz"), TIdent("x"))
PushBC == Cmd1("push", TIdent("bc"))

\* The orgs put a jump 128 and 129 bytes after a label at 0x8000, and a
\* label 127 and 128 bytes after a jump at 0x8000.
JrStmts ==
    { Minor("x"), JrX, DjnzX, JrNzX, PushBC,
      Cmd1("org", TInt(32894)), Cmd1("org", TInt(32895)),
      Cmd1("org", TInt(32897)), Cmd1("org", TInt(32898)) }

JrSources == {Join(ss) : ss \in Seqs(JrStmts, MaxJr)}

InitJr == InitWith(JrSources \cup TestSources)

SpecJr == InitJr /\ [][Next]_vars

\* Programs about expressions: dw a op1 X op3 d, where X is the literal b,
\* the bracket (b) or the bracket (b op2 c).  Each case is the text and the
\* expression tree that the text has under the precedence table with left
\* associativity.
ExprOps == {"+", "-", "*", "/"}

\* The numbers a, b, c, d of the expressions.
ExprNums == {<<3, 2, 1, 1>>, <<8, 4, 2, 1>>, <<2, 3, 4, 1>>, <<8, 1, 1, 1>>}

\* The text and the tree of the operand X.
ExprInner(n, op2) ==
    { [toks |-> <<TInt(n[2])>>, tree |-> exprInt(n[2])],
      [toks |-> <<TP("("), TInt(n[2]), TP(")")>>,
       tree |-> exprBracket(exprInt(n[2]))],
      [toks |-> <<TP("("), TInt(n[2]), TP(op2), TInt(n[3]), TP(")")>>,
       tree |-> exprBracket(exprBinaryOp(op2, exprInt(n[2]), exprInt(n[3])))] }

\* a op1 X op3 d groups to the right only when op3 binds tighter than op1.
ExprCase(n, op1, x, op3) ==
    [toks |-> <<TInt(n[1]), TP(op1)>> \o x.toks \o <<TP(op3), TInt(n[4])>>,
     tree |-> IF opPrecedence(op3) > opPrecedence(op1)
                THEN exprBinaryOp(op1, exprInt(n[1]),
                                  exprBinaryOp(op3, x.tree, exprInt(n[4])))
                ELSE exprBinaryOp(op3, exprBinaryOp(op1, exprInt(n[1]), x.tree),
                                  exprInt(n[4]))]

ExprCases ==
    UNION { UNION { { ExprCase(n, op1, x, op3) : op3 \in ExprOps } \cup
                    { [toks |-> <<TInt(n[1]), TP(op1)>> \o x.toks,
                       tree |-> exprBinaryOp(op1, exprInt(n[1]), x.tree)] }
                    : x \in ExprInner(n, op2) }
            : n \in ExprNums, op1 \in ExprOps, op2 \in ExprOps }

DwExpr(toks) == <<TIdent("dw")>> \o toks

ExprSources == {DwExpr(c.toks) : c \in ExprCases}

InitExpr == InitWith(ExprSources \cup TestSources)

SpecExpr == InitExpr /\ [][Next]_vars

\* Programs of statements written in upper, mixed and lower case.
MaxCase == 2

CaseStmts ==
    { Cmd2("LD", TIdent("A"), TInt(42)), Cmd2("LD", TIdent("a"), TInt(42)),
      Cmd2("ld", TIdent("a"), TInt(42)),
      Cmd1("Xor", TIdent("A")), Cmd1("XOR", TIdent("a")), Cmd1("xor", TIdent("a")),
      Cmd2("ld", TIdent("HL"), TInt(1)), Cmd2("ld", TIdent("hl"), TInt(1)) }

CaseSources == {Join(ss) : ss \in Seqs(CaseStmts, MaxCase)}

InitCase == InitWith(CaseSources \cup TestSources)

SpecCase == InitCase /\ [][Next]_vars

\* Programs of standard and Next instructions, for each core.
MaxCore == 2

AddHLBC == Cmd2("add", TIdent("hl"), TIdent("bc"))
Add1 == {Cmd2("add", TIdent("hl"), TIdent("a")), Cmd2("add", TIdent("de"), TInt(258))}
\* push 0xabcd
PushNN == Cmd1("push", TInt(43981))
Bsla == Cmd2("bsla", TIdent("de"), TIdent("b"))
JpC == <<TIdent("jp"), TP("("), TIdent("c"), TP(")")>>
JpHL == <<TIdent("jp"), TP("("), TIdent("hl"), TP(")")>>

CoreStmts ==
    { Cmd1("xor", TIdent("a")), AddHLBC, PushBC, JpHL, <<TIdent("ldix")>>,
      PushNN, Bsla, JpC } \cup Add1

CoreSources == {Join(ss) : ss \in Seqs(CoreStmts, MaxCore)}

InitCore == InitOn(CoreSources \cup TestSources, Cores)

SpecCore == InitCore /\ [][Next]_vars

\* Programs of instructions with one-, two- and three-byte patterns.
MaxEmit == 2

\* m v, (r+d) and m v, (r-d)
BitIdx(mn, v, r, op, d) ==
    <<TIdent(mn), v, TP(","), TP("("), TIdent(r), TP(op), TInt(d), TP(")")>>
\* m v, (r)
BitInd(mn, v, r) == <<TIdent(mn), v, TP(","), TP("("), TIdent(r), TP(")")>>
\* ld (0x1234), bc
LdIndBC == <<TIdent("ld"), TP("("), TInt(4660), TP(")"), TP(","), TIdent("bc")>>

EmitStmts ==
    { BitIdx("bit", TInt(4), "ix", "+", 10), BitIdx("bit", TInt(0), "iy", "-", 9),
      BitInd("bit", TInt(1), "ix"), BitInd("bit", TInt(4), "hl"),
      BitIdx("ld", TIdent("h"), "ix", "+", 5), LdIndBC,
      Cmd2("ld", TIdent("a"), TInt(42)), Cmd2("ld", TIdent("bc"), TInt(4660)),
      AddHLBC, Cmd2("add", TIdent("ix"), TIdent("bc")) }

EmitSources == {Join(ss) : ss \in Seqs(EmitStmts, MaxEmit)}

InitEmit == InitWith(EmitSources \cup TestSources)

SpecEmit == InitEmit /\ [][Next]_vars

\* Every mnemonic of the merged table with as many operands as a shape can
\* hold (argLen: none, one or two).
Arities == {argLen(void), argLen(regA), argLen(arg2(regA, regA))}

VariantOperands ==
    { <<TIdent("a")>>, <<TIdent("b")>>, <<TIdent("c")>>, <<TIdent("hl")>>,
      <<TIdent("de")>>, <<TIdent("sp")>>, <<TIdent("ix")>>, <<TIdent("af")>>,
      <<TIdent("nz")>>, <<TIdent("x")>>, <<TInt(0)>>, <<TInt(5)>>, <<TInt(300)>>,
      <<TP("("), TIdent("hl"), TP(")")>>, <<TP("("), TIdent("ix"), TP(")")>>,
      <<TP("("), TIdent("c"), TP(")")>>, <<TP("("), TInt(5), TP(")")>>,
      <<TP("("), TIdent("ix"), TP("+"), TInt(5), TP(")")>>,
      <<TP("("), TIdent("x"), TP(")")>>, <<TP("-"), TInt(1)>>,
      <<TIdent("bc")>>, <<TIdent("iy")>> }

Mnemonics ==
    {m \in DOMAIN commandTables[Z80CoreNext2] :
        commandTables[Z80CoreNext2][m].kind = "instr"}

RECURSIVE JoinArgs(_)
\* Operands joined by ','.
JoinArgs(ops) ==
    IF ops = <<>> THEN <<>>
    ELSE IF Len(ops) = 1 THEN ops[1]
    ELSE ops[1] \o <<TP(",")>> \o JoinArgs(Tail(ops))

VariantSources ==
    {<<TIdent(m)>> \o JoinArgs(ops) :
        m \in Mnemonics,
        ops \in UNION {[1..k -> VariantOperands] : k \in Arities}}

InitVariant == InitOn(VariantSources \cup TestSources, {Z80CoreNext2})

SpecVariant == InitVariant /\ [][Next]_vars

\* Programs of instructions with an (ix+d) or (iy+d) operand.
MaxDisp == 1

DispNums == {0, 1, 5, 127, 128, 129, 255}

\* The operand before the indexed one, per mnemonic.
DispFirst == [ld |-> TIdent("a"), res |-> TInt(1)]

DispStmts ==
    {BitIdx(m, DispFirst[m], r, op, d) :
        m \in {"ld", "res"}, r \in {"ix", "iy"}, op \in {"+", "-"}, d \in DispNums}
    \cup {BitInd(m, DispFirst[m], r) : m \in {"ld", "res"}, r \in {"ix", "iy"}}

DispSources == {Join(ss) : ss \in Seqs(DispStmts, MaxDisp)}

InitDisp == InitWith(DispSources \cup TestSources)

SpecDisp == InitDisp /\ [][Next]_vars

\* Programs of statements with one integer operand, around the ends of the
\* ranges.
MaxImm == 1

ImmNums == {0, 1, 127, 128, 129, 255, 256, 32768, 32769, 65535, 65536}

\* The tokens of the literal v: a negative one is a '-' and the number.
ImmToks(v) == IF v < 0 THEN <<TP("-"), TInt(-v)>> ELSE <<TInt(v)>>

ImmValues == ImmNums \cup {-v : v \in ImmNums}

\* The statement forms: db v, dw v, push v, jp v, ld a, v, ld hl, v and
\* ld a, (v).
ImmForms == {"db", "dw", "push", "jp", "lda", "ldhl", "ldind"}

ImmStmt(f, v) ==
    CASE f \in {"db", "dw", "push", "jp"} -> <<TIdent(f)>> \o ImmToks(v)
      [] f = "lda" -> <<TIdent("ld"), TIdent("a"), TP(",")>> \o ImmToks(v)
      [] f = "ldhl" -> <<TIdent("ld"), TIdent("hl"), TP(",")>> \o ImmToks(v)
      [] f = "ldind" ->
           <<TIdent("ld"), TIdent("a"), TP(","), TP("(")>> \o ImmToks(v)
           \o <<TP(")")>>

ImmStmts == {ImmStmt(f, v) : f \in ImmForms, v \in ImmValues}

ImmSources == {Join(ss) : ss \in Seqs(ImmStmts, MaxImm)}

InitImm == InitOn(ImmSources \cup TestSources, {Z80CoreNext1})

SpecImm == InitImm /\ [][Next]_vars

\* Programs of dw statements with an && or || expression.
MaxLogic == 1

LogicLeft == {0, 1, 42}

\* The right operands: 43, 0, an undefined label, (2/0).
LogicRight ==
    { <<TInt(43)>>, <<TInt(0)>>, <<TIdent("missing")>>,
      <<TP("("), TInt(2), TP("/"), TInt(0), TP(")")>> }

LogicStmts ==
    {<<TIdent("dw"), TInt(l), TP(op)>> \o r :
        l \in LogicLeft, op \in {"&&", "||"}, r \in LogicRight}

LogicSources == {Join(ss) : ss \in Seqs(LogicStmts, MaxLogic)}

InitLogic == InitWith(LogicSources \cup TestSources)

SpecLogic == InitLogic /\ [][Next]_vars

\* Programs with include statements: a.asm and b.asm are drawn from the
\* statements below and c.asm is db 5.
MaxInc == 2

Inc(f) == Cmd1("include", TStr(f))

IncStmtsA == {Cmd1("db", TInt(1)), Inc("b.asm"), Inc("a.asm")}

IncStmtsB ==
    {Cmd1("db", TInt(3)), Minor("y"), Inc("c.asm"), Inc("a.asm"), <<TBad>>}

IncSystems ==
    {[f \in {"a.asm", "b.asm", "c.asm"} |->
        IF f = "a.asm" THEN Join(sa)
        ELSE IF f = "b.asm" THEN Join(sb)
        ELSE Cmd1("db", TInt(5))] :
        sa \in Seqs(IncStmtsA, MaxInc), sb \in Seqs(IncStmtsB, MaxInc)}

InitInc ==
    InitFiles(IncSystems \cup {FileSystem(src) : src \in TestSources},
              {Z80CoreStandard}, {<<f>> : f \in CallFiles})

SpecInc == InitInc /\ [][Next]_vars

\* Programs with statements that fail at a late argument or at a late byte.
MaxPart == 2

Cmd3(c, t1, t2, t3) == <<TIdent(c), t1, TP(","), t2, TP(","), t3>>

PartStmts ==
    { Cmd3("db", TInt(1), TInt(2), TInt(256)), Cmd2("db", TInt(256), TInt(1)),
      Cmd2("dw", TInt(1), TInt(65536)), Cmd2("ds", TStr("hi"), TInt(5)),
      Cmd2("ld", TIdent("a"), TInt(42)), Cmd2("ld", TIdent("a"), TInt(256)),
      XorAB, Cmd1("org", TInt(65535)) }

PartSources == {Join(ss) : ss \in Seqs(PartStmts, MaxPart)}

InitPart == InitWith(PartSources \cup TestSources)

SpecPart == InitPart /\ [][Next]_vars

\* A client that calls AssembleFile several times on one assembler: a.asm
\* is one of the programs below, c.asm is db 5.
MaxCalls == 2

CallSources ==
    { XorA, JpMissing, Join(<<XorA, <<TBad>>>>), Join(Rep(XorAB, MaxErrors)),
      Join(Rep(XorAB, MaxErrors) \o <<XorA>>) }

CallSystems ==
    {[f \in {"a.asm", "c.asm"} |->
        IF f = "a.asm" THEN src ELSE Cmd1("db", TInt(5))] :
        src \in CallSources}

InitCalls ==
    InitFiles(CallSystems \cup {FileSystem(src) : src \in TestSources},
              {Z80CoreStandard},
              Seqs({"a.asm", "c.asm", "none.asm"}, MaxCalls))

SpecCalls == InitCalls /\ [][Next]_vars

-----------------------------------------------------------------------------
(* Reading the history                                                     *)

\* AssembleFile returned from assembling the program.
Returned == ctl = "returned" /\ fname = "a.asm"

\* The history entries of pass p.
LogIdx(p) == {i \in 1..Len(obs.log) : obs.log[i].pass = p}

\* The qualified name a label statement defines.
Key(e) == IF e.kind = "minor" THEN e.major \o "." \o e.name ELSE e.name

\* The entry is a label statement that reached setLabel.
IsLabel(e) ==
    /\ e.kind \in {"major", "minor"}
    /\ e.err = NoErr \/ e.err.msg = "label redefined"

\* The last label statement of pass p for a qualified name (0 when none).
LastDef(p, key) ==
    LET S == {i \in LogIdx(p) : IsLabel(obs.log[i]) /\ Key(obs.log[i]) = key}
    IN  IF S = {} THEN 0 ELSE CHOOSE i \in S : \A j \in S : j <= i

\* The entry is a statement with one operand that is a plain identifier:
\* dw L, jp L or ld a, (L).
IsRef(e) ==
    /\ e.kind = "cmd"
    /\ \/ /\ e.name \in {"dw", "jp"}
          /\ Len(e.args) = 1
          /\ e.args[1].k = "ident" /\ e.args[1].r = 0 /\ e.args[1].cc = 0
       \/ /\ e.name = "ld"
          /\ Len(e.args) = 2
          /\ e.args[1] = exprIdent("a")
          /\ e.args[2].k = "bracket"
          /\ e.args[2].e.k = "ident" /\ e.args[2].e.r = 0 /\ e.args[2].e.cc = 0

RefName(e) == IF e.name = "ld" THEN e.args[2].e.id ELSE e.args[1].id

\* The qualified name the reference of entry e resolves to: the minor label
\* of the major label current at e when there is one, else the bare name.
ResolvedKey(e) ==
    IF Has(asm.l, e.major \o "." \o RefName(e))
      THEN e.major \o "." \o RefName(e)
      ELSE RefName(e)

LE16(v) == <<v % 256, v \div 256>>

Last2(sq) == SubSeq(sq, Len(sq) - 1, Len(sq))

-----------------------------------------------------------------------------
(* C1: forward references                                                  *)

\* C1 (as amended): in pass 1 an operand that is a label L emits the
\* little-endian bytes of the value recorded for L in pass 0, that is the pc
\* (modulo 65536) pass 0 had at the last definition of L, whether L is
\* defined before or after the use.
C1_ForwardReference ==
    \A i \in LogIdx(1) :
        LET e == obs.log[i]
            d == LastDef(0, ResolvedKey(e))
        IN  IsRef(e) /\ e.err = NoErr /\ RefName(e) \notin e.constsDef =>
                /\ d # 0
                /\ Last2(e.out) = LE16(uint16(obs.log[d].pc))

\* A forward reference was assembled in pass 1: the label is defined after
\* the statement that uses it, at an address above the initial one.
C1_Witness ==
    \E i \in LogIdx(1) :
        LET e == obs.log[i]
        IN  /\ IsRef(e) /\ e.err = NoErr
            /\ \E j \in LogIdx(1) :
                   /\ j > i
                   /\ IsLabel(obs.log[j]) /\ Key(obs.log[j]) = ResolvedKey(e)
                   /\ obs.log[j].pc > InitialPC
            /\ Last2(e.out) = LE16(asm.l[ResolvedKey(e)])

\* C1 as stated: the bytes encode the address at which L is defined in the
\* pass that emits them.
C1_Original ==
    Returned /\ result = <<>> =>
        \A i \in LogIdx(1), j \in LogIdx(1) :
            LET e == obs.log[i]
                d == obs.log[j]
            IN  /\ IsRef(e) /\ e.err = NoErr
                /\ IsLabel(d) /\ Key(d) = ResolvedKey(e)
                => Last2(e.out) = LE16(d.pc)

-----------------------------------------------------------------------------
(* C2: the value of a label                                                *)

\* GetLabel for the label that the label statement of entry e defines.
LabelValue(e) ==
    IF e.kind = "minor" THEN GetLabel(asm, e.major, "." \o e.name)
    ELSE GetLabel(asm, "", e.name)

\* C2 (as amended): after AssembleFile returned nil, GetLabel(L) is the pc,
\* modulo 65536, that pass 0 had at the last definition of L.
C2_LabelValue ==
    Returned /\ result = <<>> =>
        \A i \in LogIdx(0) :
            LET e == obs.log[i]
            IN  IsLabel(e) /\ LastDef(0, Key(e)) = i =>
                    LabelValue(e) = [v |-> uint16(e.pc), ok |-> TRUE]

\* A label defined after some bytes were emitted has the pc of its
\* definition as its value.
C2_Witness ==
    /\ Returned /\ result = <<>>
    /\ \E i \in LogIdx(0) :
           /\ IsLabel(obs.log[i])
           /\ obs.log[i].pc > InitialPC
           /\ LabelValue(obs.log[i]) = [v |-> obs.log[i].pc, ok |-> TRUE]

\* C2 as stated: GetLabel(L) is the pc pass 1 had at the definition of L.
C2_Original ==
    Returned /\ result = <<>> =>
        \A i \in LogIdx(1) :
            IsLabel(obs.log[i]) =>
                LabelValue(obs.log[i]) = [v |-> obs.log[i].pc, ok |-> TRUE]

-----------------------------------------------------------------------------
(* C3: the two passes agree                                                *)

PassLog(p) == SelectSeq(obs.log, LAMBDA e : e.pass = p)

\* The pc at every statement of pass p, in order.
StmtPcs(p) ==
    [i \in DOMAIN PassLog(p) |-> [loc |-> PassLog(p)[i].loc, pc |-> PassLog(p)[i].pc]]

IsOrg(e) == e.kind = "cmd" /\ e.name = "org"

\* What every org statement of pass p set.
OrgTrace(p) ==
    LET os == SelectSeq(PassLog(p), IsOrg)
    IN  [i \in DOMAIN os |->
            [loc |-> os[i].loc, pc |-> os[i].pc2, target |-> os[i].target2]]

RECURSIVE SumBytes(_)
SumBytes(es) ==
    IF es = <<>> THEN 0
    ELSE (IF IsOrg(Head(es)) THEN 0 ELSE Head(es).pc2 - Head(es).pc)
         + SumBytes(Tail(es))

\* The number of bytes pass p emitted.
Emitted(p) == SumBytes(PassLog(p))

\* C3 (as amended): when AssembleFile returned nil, pass 0 recorded no error
\* and every org set the same pc and target in both passes, the two passes
\* emitted the same number of bytes and had the same pc at every statement.
C3_PassConvergence ==
    /\ Returned /\ result = <<>>
    /\ obs.e0 = <<>>
    /\ OrgTrace(0) = OrgTrace(1)
    => /\ StmtPcs(0) = StmtPcs(1)
       /\ Emitted(0) = Emitted(1)

\* Both passes assembled an org and some bytes, and agree.
C3_Witness ==
    /\ Returned /\ result = <<>>
    /\ obs.e0 = <<>>
    /\ OrgTrace(0) = OrgTrace(1)
    /\ Len(OrgTrace(1)) >= 1
    /\ Emitted(1) >= 2
    /\ StmtPcs(0) = StmtPcs(1)

\* C3 as stated: the passes agree for every source that assembles.
C3_Original ==
    Returned /\ result = <<>> =>
        /\ StmtPcs(0) = StmtPcs(1)
        /\ Emitted(0) = Emitted(1)

-----------------------------------------------------------------------------
(* C9: major and minor labels                                              *)

\* The pc, modulo 65536, pass 0 had at the last definition of a qualified
\* name.
DefPc0(key) == uint16(obs.log[LastDef(0, key)].pc)

\* C9: a minor label .name is stored under currentMajor.name; in pass 1 a
\* reference to id emits the value of the minor label id of the major label
\* current at the reference when pass 0 defined one, and else the value of
\* the bare label id; a label is reported as redefined only when the same
\* qualified name was defined at another place.
C9_LabelScoping ==
    /\ \A i \in LogIdx(0) :
           LET e == obs.log[i]
           IN  e.kind = "minor" /\ e.err = NoErr /\ LastDef(0, Key(e)) = i =>
                   /\ Has(asm.l, e.major \o "." \o e.name)
                   /\ asm.l[e.major \o "." \o e.name] = uint16(e.pc)
    /\ \A i \in LogIdx(1) :
           LET e == obs.log[i]
               own == e.major \o "." \o RefName(e)
           IN  IsRef(e) /\ e.err = NoErr /\ RefName(e) \notin e.constsDef =>
                   IF LastDef(0, own) # 0
                     THEN Last2(e.out) = LE16(DefPc0(own))
                     ELSE /\ LastDef(0, RefName(e)) # 0
                          /\ Last2(e.out) = LE16(DefPc0(RefName(e)))
    /\ \A i \in LogIdx(1) :
           LET e == obs.log[i]
           IN  IsLabel(e) /\ e.err # NoErr =>
                   \E j \in LogIdx(0) :
                       /\ IsLabel(obs.log[j])
                       /\ Key(obs.log[j]) = Key(e)
                       /\ obs.log[j].loc2 # e.loc2

\* The minor label x was defined under the major labels f and g at two
\* addresses without an error, and a reference to x under f emitted the
\* value of f.x.
C9_Witness ==
    /\ Returned /\ result = <<>>
    /\ Has(asm.l, "f.x") /\ Has(asm.l, "g.x")
    /\ asm.l["f.x"] # asm.l["g.x"]
    /\ \E i \in LogIdx(1) :
           /\ IsRef(obs.log[i])
           /\ obs.log[i].major = "f"
           /\ Last2(obs.log[i].out) = LE16(asm.l["f.x"])

-----------------------------------------------------------------------------
(* C4 - C7: what AssembleFile reports                                      *)

\* The statements of the program AssembleFile was called on.
Stmts == Split(files["a.asm"])

\* Statements that fail whatever precedes them, and one that never fails.
BadStmts == {XorAB, JpMissing, DbDiv0, AndAndFoo}
GoodStmts == {XorA}

\* The program consists of such statements only.
Classified == \A i \in DOMAIN Stmts : Stmts[i] \in BadStmts \cup GoodStmts

\* The number of erroneous statements of the program.
NumBad == Cardinality({i \in DOMAIN Stmts : Stmts[i] \in BadStmts})

\* The result contains a line with this message and argument.
Reported(msg, arg) ==
    \E k \in DOMAIN result : result[k].msg = msg /\ result[k].arg = arg

\* C4: pass 1 always runs after pass 0, and the result is nil exactly when
\* pass 1 recorded no statement error.
C4_Original ==
    Returned =>
        /\ obs.open[1]
        /\ (result = <<>>) <=> (\A i \in LogIdx(1) : obs.log[i].err = NoErr)

\* C5: a source with 20 or more erroneous statements yields exactly 20
\* error lines.
C5_Original ==
    Returned /\ Classified /\ NumBad >= MaxErrors => Len(result) = MaxErrors

\* C6: a source with k erroneous statements, 1 <= k < 20, yields exactly k
\* error lines.
C6_Original ==
    Returned /\ Classified /\ NumBad >= 1 /\ NumBad < MaxErrors =>
        Len(result) = NumBad

\* C7: every line of the error AssembleFile returns starts with the place
\* file:line.col of the error.
C7_Original ==
    Returned => \A k \in DOMAIN result : result[k].loc # NoLoc

-----------------------------------------------------------------------------
(* C8: a label defined twice                                               *)

\* The first label statement of pass p for a qualified name (0 when none).
FirstDef(p, key) ==
    LET S == {i \in LogIdx(p) : IsLabel(obs.log[i]) /\ Key(obs.log[i]) = key}
    IN  IF S = {} THEN 0 ELSE CHOOSE i \in S : \A j \in S : i <= j

\* The entry is a label statement that called setLabel.
CalledSetLabel(e) ==
    /\ e.kind \in {"major", "minor"}
    /\ e.err.msg \notin {"unknown command", "unexpected", "scan error"}

-----------------------------------------------------------------------------
(* C10: a constant used before its definition                              *)

\* The entry is a statement whose operand is the identifier k alone:
\* db k or ld a, k.
IsConstRef(e) ==
    /\ e.kind = "cmd"
    /\ \/ e.name = "db" /\ e.args = <<exprIdent("k")>>
       \/ e.name = "ld" /\ e.args = <<exprIdent("a"), exprIdent("k")>>

\* C10 (as amended): a statement of pass 1 that evaluates the name of a
\* constant defined in pass 0 before the const statement of pass 1 fails
\* with "use of const before definition", which is a line of the error
\* AssembleFile returns; after the const statement the name evaluates to
\* the value of the constant.
C10_ConstBeforeDefinition ==
    \A i \in LogIdx(1) :
        LET e == obs.log[i]
        IN  IsConstRef(e) /\ Has(e.consts, "k") =>
                IF "k" \notin e.constsDef
                  THEN /\ e.err = Err(e.loc2, "use of const before definition", "k")
                       /\ Returned => \E n \in DOMAIN result : result[n] = e.err
                  ELSE /\ e.err = NoErr
                       /\ e.out = <<byte(e.consts["k"])>>

\* The same source used k before and after const k = 5: the first use is
\* reported and the second one emitted 5.
C10_Witness ==
    /\ Returned
    /\ Reported("use of const before definition", "k")
    /\ \E i \in LogIdx(1), j \in LogIdx(1) :
           /\ i < j
           /\ IsConstRef(obs.log[i]) /\ IsConstRef(obs.log[j])
           /\ obs.log[i].err.msg = "use of const before definition"
           /\ obs.log[j].err = NoErr /\ obs.log[j].out = <<5>>

\* C10 as stated: whenever a statement of the source refers to k before the
\* statement const k = ..., the error AssembleFile returns contains
\* "use of const before definition".
C10_Original ==
    Returned =>
        \A i \in DOMAIN Stmts, j \in DOMAIN Stmts :
            i < j /\ Stmts[i] \in {DbK, DbOrK, Db256K} /\ Stmts[j] = ConstK
            => Reported("use of const before definition", "k")

-----------------------------------------------------------------------------
(* C11: a constant computed from a label that is defined later             *)

\* asm.consts after the statement of history entry i.
ConstsAfter(i) ==
    IF i < Len(obs.log) THEN obs.log[i + 1].consts ELSE asm.consts

\* The entry is the statement const k = x + 1.
IsConstKX1(e) ==
    /\ e.kind = "cmd" /\ e.name = "const"
    /\ e.args = <<exprIdent("k"),
                  exprBinaryOp("+", exprIdent("x"), exprInt(1))>>

IsDwK(e) == e.kind = "cmd" /\ e.name = "dw" /\ e.args = <<exprIdent("k")>>

\* The qualified name the identifier x resolves to at entry e.
KeyOfX(e) == IF Has(asm.l, e.major \o ".x") THEN e.major \o ".x" ELSE "x"

\* The two passes agreed: no error in either and every org set the same.
Converged ==
    /\ Returned /\ result = <<>>
    /\ obs.e0 = <<>>
    /\ OrgTrace(0) = OrgTrace(1)

-----------------------------------------------------------------------------
(* C12: org sets the pc and the target                                     *)

\* The entry is an org with literal arguments that succeeded.
IsLitOrg(e) ==
    /\ IsOrg(e) /\ e.err = NoErr
    /\ \A k \in DOMAIN e.args : e.args[k].k = "int"

IsDbFF(e) == e.kind = "cmd" /\ e.name = "db" /\ e.args = <<exprInt(255)>>

\* C12 as stated: after org n, t a db 0xff that follows writes its byte at
\* index t of the memory for the address n, and advances pc and target by
\* one each.
C12_Original ==
    \A i \in 1..(Len(obs.log) - 1) :
        LET o == obs.log[i]
            e == obs.log[i + 1]
        IN  /\ IsLitOrg(o)
            /\ IsDbFF(e) /\ e.pass = o.pass
            => /\ e.pc = o.args[1].i /\ e.target = o.args[Len(o.args)].i
               /\ e.err = NoErr
               /\ e.out = <<255>>
               /\ e.pc2 = e.pc + 1 /\ e.target2 = e.target + 1

-----------------------------------------------------------------------------
(* C13: the two-value org example of the README                            *)

\* C13 as stated: the example assembles without error and leaves the bytes
\* 1, 2, 3, 4, 0x00, 0x90 at index 0xff0000 of the memory.
C13_Original ==
    Returned /\ files["a.asm"] = ReadmeOrg =>
        /\ result = <<>>
        /\ [i \in 1..6 |-> MemAt(asm, 16711680 + i - 1)] = <<1, 2, 3, 4, 0, 144>>

-----------------------------------------------------------------------------
(* C14: memory that was not emitted to is zero                             *)

\* The indexes of the memory that pass p wrote to.
Written(p) ==
    UNION { obs.log[i].target .. (obs.log[i].target2 - 1) :
              i \in {j \in LogIdx(p) : ~IsOrg(obs.log[j])} }

\* The indexes of the memory that hold a byte that is not zero.
NonZero == {x \in DOMAIN asm.m.b : asm.m.b[x] # 0}

\* C14 (as amended): after AssembleFile returned nil on a fresh assembler,
\* when pass 0 recorded no error and every org set the same pc and target in
\* both passes, every byte of the memory at an index that pass 1 did not
\* write to is zero.
C14_ZeroFill == Converged => NonZero \subseteq Written(1)

\* Both passes wrote bytes after an org, and some byte is not zero.
C14_Witness ==
    /\ Converged
    /\ \E i \in LogIdx(1) : IsLitOrg(obs.log[i])
    /\ NonZero # {}
    /\ Written(0) # {}

\* C14 as stated: whenever AssembleFile returned nil, every byte at an index
\* that pass 1 did not write to is zero.
C14_Original == Returned /\ result = <<>> => NonZero \subseteq Written(1)

-----------------------------------------------------------------------------
(* C19: the memory grows when the target is beyond it                      *)

\* C19 as stated: a byte emitted at a target at or beyond the length of the
\* memory makes the memory a multiple of 16 KiB longer than the target and
\* is stored at the target.
C19_Original ==
    \A i \in 1..Len(obs.log) :
        LET e == obs.log[i]
        IN  IsDbFF(e) /\ e.target >= e.len /\ e.pc >= 0 /\ e.pc < 65536 =>
                /\ e.err = NoErr
                /\ e.len2 % 16384 = 0 /\ e.len2 > e.target
                /\ e.out = <<255>>

-----------------------------------------------------------------------------
(* C15: relative jumps                                                     *)

\* The entry is jr x, djnz x or jr nz, x.
IsRel(e) ==
    /\ e.kind = "cmd" /\ e.name \in {"jr", "djnz"}
    /\ e.args \in {<<exprIdent("x")>>, <<exprIdent("nz"), exprIdent("x")>>}

\* The opcode of the relative jump of entry e.
RelOpcode(e) ==
    IF e.name = "djnz" THEN 16 ELSE IF Len(e.args) = 2 THEN 32 ELSE 24

\* C15: in pass 1 a relative jump to the label x, in an instruction that
\* starts at the address pc, emits its opcode and the byte
\* (x - (pc + 2)) mod 256 when x - (pc + 2) is in -128..127, and fails
\* without emitting anything when it is not.
C15_RelativeJump ==
    \A i \in LogIdx(1) :
        LET e == obs.log[i]
            d == DefPc0(KeyOfX(e)) - (e.pc + 2)
        IN  IsRel(e) /\ LastDef(0, KeyOfX(e)) # 0 =>
                IF d >= -128 /\ d <= 127
                  THEN /\ e.err = NoErr
                       /\ e.out = <<RelOpcode(e), d % 256>>
                  ELSE /\ e.err = Err(e.loc2, "is not in the range", "")
                       /\ e.out = <<>>
                       /\ e.pc2 = e.pc

\* The programs of the test: .x jr x emits 18 FE, and .x push bc ; jr x
\* emits C5 18 FD.
C15_Witness ==
    /\ Returned /\ result = <<>>
    /\ \E i \in LogIdx(1) :
           /\ IsRel(obs.log[i])
           /\ obs.log[i].out = <<24, 253>>
           /\ obs.log[i - 1].out = <<197>>
           /\ \E j \in LogIdx(1) : j < i /\ IsLabel(obs.log[j])

-----------------------------------------------------------------------------
(* C16: the value of an expression                                         *)

RECURSIVE RefOk(_)
\* The tree divides by zero nowhere.
RefOk(t) ==
    CASE t.k = "int" -> TRUE
      [] t.k = "bracket" -> RefOk(t.e)
      [] t.k = "binary" ->
           /\ RefOk(t.e1) /\ RefOk(t.e2)
           /\ t.op = "/" =>
                  getIntValue(NewAssembler(Z80CoreStandard), t.e2).v # 0

RECURSIVE RefVal(_)
\* The value of an expression tree in Go.
RefVal(t) ==
    CASE t.k = "int" -> t.i
      [] t.k = "bracket" -> RefVal(t.e)
      [] t.k = "binary" ->
           CASE t.op = "+" -> RefVal(t.e1) + RefVal(t.e2)
             [] t.op = "-" -> RefVal(t.e1) - RefVal(t.e2)
             [] t.op = "*" -> RefVal(t.e1) * RefVal(t.e2)
             [] t.op = "/" -> GoDiv(RefVal(t.e1), RefVal(t.e2))

\* The two bytes at the initial pc.
FirstWord == <<MemAt(asm, InitialPC), MemAt(asm, InitialPC + 1)>>

\* C16 as stated: dw of an expression over literals, + - * / and brackets
\* emits the value the text has in Go.
C16_Original ==
    Returned =>
        \A c \in ExprCases :
            files["a.asm"] = DwExpr(c.toks) /\ RefOk(c.tree) =>
                /\ result = <<>>
                /\ FirstWord = LE16(uint16(RefVal(c.tree)))

-----------------------------------------------------------------------------
(* C17: case of mnemonics and register names                               *)

\* An operand with its identifier in lower case.
LowerExpr(e) == IF e.k = "ident" THEN exprIdent(ToLower(e.id)) ELSE e

\* Entry f is the all-lower-case writing of the operands of entry e.
LowerFormOf(e, f) ==
    /\ e.kind = "cmd" /\ f.kind = "cmd" /\ e.name = f.name
    /\ Len(e.args) = Len(f.args)
    /\ \A k \in 1..Len(e.args) : f.args[k] = LowerExpr(e.args[k])

\* C17 (as stated): a statement written with any mix of upper and lower case
\* in its mnemonic and its register operands assembles to the same bytes as
\* its all-lower-case form: of two consecutive statements of a pass where the
\* second is the lower-case writing of the first, both assemble without an
\* error and emit the same bytes.
C17_Original ==
    \A i \in 1..Len(obs.log) - 1 :
        LET e == obs.log[i]
            f == obs.log[i + 1]
        IN  e.pass = f.pass /\ e.name \in {"ld", "xor"} /\ LowerFormOf(e, f)
            => e.err = NoErr /\ f.err = NoErr /\ e.out = f.out

-----------------------------------------------------------------------------
(* C18: the Next instructions and the core option                          *)

\* What a statement did: its error and the bytes it left.
Seen(a, o) ==
    [err |-> o.err, out |-> Out(a, o.a), pc |-> o.a.pc, target |-> o.a.target]

\* What the statement that starts with the identifier n.tok can do when the
\* assembler was built for core c.
OnCore(n, c) ==
    LET Run(a, cmd) ==
            IF cmd \in DOMAIN commandTable(a)
              THEN {Seen(a, o) :
                      o \in commandAssembler_W(a, files, commandTable(a)[cmd].args)}
              ELSE {Seen(a, majorLabel([n EXCEPT !.a = a], files))}
    IN  Run([n.a EXCEPT !.core = c], ToLower(n.tok.s))

\* The variants of mnemonic cmd on core Next2 that the operands match.
Matching(n, cmd) ==
    LET Fit(p, tbl) ==
            {v \in DOMAIN tbl :
                LET r == argsCompatible(p.a, p.args, v)
                IN  r.err = NoErr /\ r.ok}
    IN  Fit(parseArgs(n.a, files, FALSE), commandTables[Z80CoreNext2][cmd].args)

\* The core level that introduces variant v of mnemonic cmd.
Level(cmd, v) ==
    IF cmd \in DOMAIN commandsArgsNext2 /\ v \in DOMAIN commandsArgsNext2[cmd]
      THEN Z80CoreNext2
    ELSE IF \/ cmd \in DOMAIN commands0argNext1 /\ v = void
            \/ cmd \in DOMAIN commandsArgsNext1
               /\ v \in DOMAIN commandsArgsNext1[cmd]
      THEN Z80CoreNext1
    ELSE Z80CoreStandard

\* The next statement is an instruction that core Next2 assembles.
Assembles(n) ==
    /\ n.err = NoErr /\ n.tok.t = "Ident"
    /\ ToLower(n.tok.s) \in DOMAIN commandTables[Z80CoreNext2]
    /\ commandTables[Z80CoreNext2][ToLower(n.tok.s)].kind = "instr"
    /\ \A r \in OnCore(n, Z80CoreNext2) : r.err = NoErr

-----------------------------------------------------------------------------
(* C20: the layout of the bytes of an instruction                          *)

\* The variants of the next instruction that its operands match, each with
\* the operand bytes.
Fits(n) ==
    LET Fit(p, tbl) ==
            {[v |-> v, P |-> tbl[v], r |-> argsCompatible(p.a, p.args, v)] :
                v \in DOMAIN tbl}
    IN  {f \in Fit(parseArgs(n.a, files, FALSE),
                   commandTable(n.a)[ToLower(n.tok.s)].args) :
            f.r.err = NoErr /\ f.r.ok}

\* The layout of pattern P around the operand bytes ops.
Layout(P, ops) ==
    IF Len(P) > 2 THEN SubSeq(P, 1, 2) \o ops \o SubSeq(P, 3, Len(P))
    ELSE P \o ops

\* C20: when a variant with fixed pattern P matches the operands of an
\* instruction and they encode to ops, the instruction emits, from the target
\* it starts at, the first min(2, len P) bytes of P, then ops, then the rest
\* of P: the operands follow the whole of a one- or two-byte pattern, and lie
\* between the second and the third byte of a three-byte one.
C20_EmissionLayout ==
    ctl = "run" =>
        LET Do(n) ==
                n.err = NoErr /\ IsCommand(n.tok, "instr") =>
                    \A o \in commandAssembler_W(n.a, files,
                                 commandTable(n.a)[ToLower(n.tok.s)].args) :
                        o.err = NoErr =>
                            \A f \in Fits(n) :
                                /\ Out(n.a, o.a) = Layout(f.P, f.r.bs)
                                /\ o.a.pc = n.a.pc + Len(f.P) + Len(f.r.bs)
        IN  Do(First)

\* Pass 1 emitted DD CB 0A 66 for bit 4, (ix+10) and DD 66 05 for
\* ld h, (ix+5).
C20_Witness ==
    \E i, j \in LogIdx(1) :
        /\ obs.log[i].name = "bit" /\ obs.log[i].out = <<221, 203, 10, 102>>
        /\ obs.log[j].name = "ld" /\ obs.log[j].out = <<221, 102, 5>>

-----------------------------------------------------------------------------
(* C21: at most one variant matches                                        *)

-----------------------------------------------------------------------------
(* C22: the displacement of (ix+d) and (iy+d)                              *)

\* The statement of entry e is ld a, B or res 1, B with B a bracket around
\* ix, iy, or one of them plus or minus an integer.
IsIndexed(e) ==
    /\ e.kind = "cmd" /\ e.name \in {"ld", "res"} /\ Len(e.args) = 2
    /\ e.args[1] = (IF e.name = "ld" THEN exprIdent("a") ELSE exprInt(1))
    /\ e.args[2].k = "bracket"
    /\ LET in == e.args[2].e
       IN  \/ in.k = "ident" /\ in.id \in {"ix", "iy"}
           \/ /\ in.k = "binary" /\ in.op \in {"+", "-"}
              /\ in.e1.k = "ident" /\ in.e1.id \in {"ix", "iy"}
              /\ in.e2.k = "int"

\* The index register and the displacement written in entry e.
IndexReg(e) ==
    IF e.args[2].e.k = "ident" THEN e.args[2].e.id ELSE e.args[2].e.e1.id

IndexDisp(e) ==
    IF e.args[2].e.k = "ident" THEN 0
    ELSE IF e.args[2].e.op = "-" THEN -(e.args[2].e.e2.i)
    ELSE e.args[2].e.e2.i

\* The bytes of ld a, (r+d) and res 1, (r+d).
IndexedBytes(name, r, d) ==
    LET Pre(x) == IF name = "ld" THEN <<x, 126, d % 256>>
                                 ELSE <<x, 203, d % 256, 142>>
    IN  Pre(IF r = "ix" THEN 221 ELSE 253)

\* C22: a bracket around the bare register ix or iy encodes displacement 0,
\* one around ix+n or ix-n the single byte (+n or -n) mod 256, and a
\* displacement outside -128..127 is an error that emits nothing; so
\* res 1, (ix) and res 1, (ix+0) emit the same bytes and ld a, (ix+128) and
\* ld a, (ix-129) fail.
C22_IndexDisplacement ==
    \A i \in 1..Len(obs.log) :
        LET e == obs.log[i]
        IN  IsIndexed(e) =>
                IF IndexDisp(e) \in -128..127
                  THEN /\ e.err = NoErr
                       /\ e.out = IndexedBytes(e.name, IndexReg(e), IndexDisp(e))
                  ELSE /\ e.err = Err(e.loc2, "out of range -128 to 127", "")
                       /\ e.out = <<>> /\ e.pc2 = e.pc

\* Pass 1 assembled res 1, (ix) to DD CB 00 8E.
C22_Witness ==
    \E i \in LogIdx(1) :
        /\ IsIndexed(obs.log[i]) /\ obs.log[i].args[2].e.k = "ident"
        /\ obs.log[i].out = <<221, 203, 0, 142>>

-----------------------------------------------------------------------------
(* C23: the ranges and the encoding of integer operands                    *)

\* An integer literal, or the negation of one.
IsLit(x) == x.k = "int" \/ (x.k = "unary" /\ x.op = "-" /\ x.e.k = "int")

LitVal(x) == IF x.k = "int" THEN x.i ELSE -(x.e.i)

\* The form of the statement of entry e, "" when it is none of ImmForms.
ImmForm(e) ==
    IF e.kind # "cmd" THEN ""
    ELSE IF e.name \in {"db", "dw", "push", "jp"}
            /\ Len(e.args) = 1 /\ IsLit(e.args[1])
      THEN e.name
    ELSE IF e.name = "ld" /\ Len(e.args) = 2 /\ IsLit(e.args[2])
      THEN IF e.args[1] = exprIdent("a") THEN "lda"
           ELSE IF e.args[1] = exprIdent("hl") THEN "ldhl" ELSE ""
    ELSE IF e.name = "ld" /\ Len(e.args) = 2 /\ e.args[1] = exprIdent("a")
            /\ e.args[2].k = "bracket" /\ IsLit(e.args[2].e)
      THEN "ldind"
    ELSE ""

ImmValue(e) ==
    IF ImmForm(e) = "ldind" THEN LitVal(e.args[2].e)
    ELSE LitVal(e.args[Len(e.args)])

\* The shape of the operand of each form and the bytes before it.
ImmShape(f) ==
    CASE f \in {"db", "lda"} -> "const8" [] f \in {"dw", "ldhl"} -> "const16"
      [] f = "push" -> "const16be" [] f = "jp" -> "addr16"
      [] f = "ldind" -> "ind16"

ImmOpcode(f) ==
    CASE f \in {"db", "dw"} -> <<>> [] f = "lda" -> <<62>> [] f = "ldhl" -> <<33>>
      [] f = "push" -> <<237, 138>> [] f = "jp" -> <<195>> [] f = "ldind" -> <<58>>

\* The ranges and the encodings the claim states.
ImmAccepted(sh, v) ==
    CASE sh = "const8" -> -128 <= v /\ v <= 255
      [] sh \in {"const16", "const16be"} -> -32768 <= v /\ v <= 65535
      [] sh \in {"addr16", "ind16"} -> 0 <= v /\ v <= 65535

ImmBytes(sh, v) ==
    CASE sh = "const8" -> <<v % 256>>
      [] sh = "const16be" -> <<(v % 65536) \div 256, (v % 65536) % 256>>
      [] OTHER -> <<(v % 65536) % 256, (v % 65536) \div 256>>

\* C23: an integer operand v is accepted for const8 iff -128 <= v <= 255, for
\* const16 and const16be iff -32768 <= v <= 65535, for addr16 and ind16 iff
\* 0 <= v <= 65535; an accepted value is emitted as v mod 256, or as v mod
\* 65536 low byte first (high byte first for const16be), and a value outside
\* the range is an error of the statement.
C23_ImmediateRanges ==
    \A i \in 1..Len(obs.log) :
        LET e == obs.log[i]
            f == ImmForm(e)
        IN  f # "" =>
                IF ImmAccepted(ImmShape(f), ImmValue(e))
                  THEN /\ e.err = NoErr
                       /\ e.out = ImmOpcode(f) \o ImmBytes(ImmShape(f), ImmValue(e))
                  ELSE e.err = Err(e.loc2, "is not in the range", "")

\* Pass 1 assembled push -32768 to ED 8A 80 00.
C23_Witness ==
    \E i \in LogIdx(1) :
        /\ ImmForm(obs.log[i]) = "push" /\ ImmValue(obs.log[i]) = -32768
        /\ obs.log[i].out = <<237, 138, 128, 0>>

-----------------------------------------------------------------------------
(* C24: && and || evaluate the right operand only when needed              *)

\* Entry e is dw a && b or dw a || b with a an integer literal.
IsLogic(e) ==
    /\ e.kind = "cmd" /\ e.name = "dw" /\ Len(e.args) = 1
    /\ e.args[1].k = "binary" /\ e.args[1].op \in {"&&", "||"}
    /\ e.args[1].e1.k = "int"

\* The left operand decides the result.
Decides(x) == (x.e1.i # 0 /\ x.op = "||") \/ (x.e1.i = 0 /\ x.op = "&&")

\* C24: for a || b with a # 0 and a && b with a = 0 the result is a and b
\* is never evaluated, so an undefined label or a division by zero in b is no
\* error, even in pass 1; otherwise the result is the value of b (not 0 or
\* 1), and an error of b is the error of the statement.
C24_ShortCircuit ==
    \A i \in 1..Len(obs.log) :
        LET e == obs.log[i]
            x == e.args[1]
        IN  IsLogic(e) =>
                IF Decides(x)
                  THEN e.err = NoErr /\ e.out = LE16(x.e1.i)
                ELSE IF x.e2.k = "int"
                  THEN e.err = NoErr /\ e.out = LE16(x.e2.i)
                ELSE IF x.e2.k = "ident"
                  THEN IF e.pass = 0 THEN e.err = NoErr /\ e.out = <<0, 0>>
                       ELSE e.err.msg = "unknown label" /\ e.out = <<>>
                ELSE e.err.msg = "divide by zero" /\ e.out = <<>>

\* Pass 1 assembled dw 42 || missing to 2A 00.
C24_Witness ==
    \E i \in LogIdx(1) :
        /\ IsLogic(obs.log[i]) /\ obs.log[i].args[1].op = "||"
        /\ obs.log[i].args[1].e2.k = "ident"
        /\ obs.log[i].err = NoErr /\ obs.log[i].out = <<42, 0>>

-----------------------------------------------------------------------------
(* C25: included files are assembled in place                              *)

RECURSIVE ExpandStmts(_, _, _)
\* The bytes of the statements stmts with every include replaced by the
\* statements of its file; open holds the files being expanded.  An include
\* of an open or missing file is an error and adds nothing; stop: a token
\* that cannot be scanned was reached, nothing after it is read.
ExpandStmts(fs, stmts, open) ==
    IF stmts = <<>> THEN [out |-> <<>>, stop |-> FALSE]
    ELSE LET st == Head(stmts)
             rest == ExpandStmts(fs, Tail(stmts), open)
             Then(r) == IF r.stop THEN r
                        ELSE [out |-> r.out \o rest.out, stop |-> rest.stop]
         IN  IF st = <<>> THEN rest
             ELSE IF st[1] = TBad THEN [out |-> <<>>, stop |-> TRUE]
             ELSE IF st[1] = TIdent("db")
               THEN [out |-> <<st[2].i>> \o rest.out, stop |-> rest.stop]
             ELSE IF st[1] = TIdent("include")
                     /\ st[2].s \notin open /\ st[2].s \in DOMAIN fs
               THEN Then(ExpandStmts(fs, Split(fs[st[2].s]),
                                     open \cup {st[2].s}))
             ELSE rest

\* The program of file f with its includes expanded in place.
Expand(f) == ExpandStmts(files, Split(files[f]), {f})

RECURSIVE Flat(_)
\* The bytes of the entries es, in order.
Flat(es) == IF es = <<>> THEN <<>> ELSE Head(es).out \o Flat(Tail(es))

IsPrefix(s, t) == Len(s) <= Len(t) /\ s = SubSeq(t, 1, Len(s))

\* Pass p is over.
PassOver(p) ==
    \/ p = 0 /\ asm.pass = 1
    \/ asm.pass = p /\ ctl \in {"passEnd", "returned"}

\* The pass has just read the end of a file.
AtEOF ==
    /\ obs.log # <<>>
    /\ obs.log[Len(obs.log)].kind = "EOF"
    /\ obs.log[Len(obs.log)].pass = asm.pass

-----------------------------------------------------------------------------
(* C26: recursive includes are refused and AssembleFile terminates         *)

\* No file is on the stack twice.
NoFileTwice ==
    \A i, j \in 1..Len(asm.openFiles) :
        asm.openFiles[i] = asm.openFiles[j] => i = j

\* The next statement is an include of a file that is on the stack.
NextIncludesOpen(n) ==
    /\ n.err = NoErr /\ IsCommand(n.tok, "include")
    /\ parseArgs(n.a, files, FALSE).err = NoErr
    /\ Len(parseArgs(n.a, files, FALSE).args) = 1
    /\ parseArgs(n.a, files, FALSE).args[1].k = "str"
    /\ InSeq(parseArgs(n.a, files, FALSE).args[1].s, asm.openFiles)

\* The statement reports the recursive include and pushes nothing.
RefusesInclude(n, o) ==
    /\ o.err.msg = "recursive include of file"
    /\ o.a.openFiles = asm.openFiles
    /\ o.a.closers = asm.closers
    /\ Len(o.a.scanners) = Len(asm.scanners)

\* The stack holds distinct files, and an include of one of them is
\* refused.
StackBounded ==
    /\ NoFileTwice
    /\ Len(asm.scanners) <= Cardinality(DOMAIN files)
    /\ Len(asm.scanners) = Len(asm.openFiles)
    /\ (ctl = "run" /\ NextIncludesOpen(First)) =>
            RefusesInclude(First, commandInclude_W(First.a, files))

RECURSIVE Work(_, _, _)
\* The tokens a pass reads from the tokens toks of a file and from the files
\* they include, an end of file counted as one; open holds the files on
\* the stack.
Work(fs, toks, open) ==
    IF toks = <<>> THEN 1
    ELSE (IF Len(toks) > 1 /\ toks[1] = TIdent("include")
             /\ toks[2].t = "String"
             /\ toks[2].s \in DOMAIN fs /\ toks[2].s \notin open
            THEN Work(fs, fs[toks[2].s], open \cup {toks[2].s}) ELSE 0)
         + 1 + Work(fs, Tail(toks), open)

\* The most statements one pass of the call can assemble.
PassBound ==
    IF fname \in DOMAIN files THEN Work(files, files[fname], {fname}) ELSE 0

\* The most statements a pass of a call on any of the files can assemble.
FilesBound ==
    CHOOSE b \in {Work(files, files[f], {f}) : f \in DOMAIN files} :
        \A f \in DOMAIN files : Work(files, files[f], {f}) <= b

\* The statements the current pass has assembled.
PassSteps ==
    Cardinality({i \in 1..Len(obs.log) :
                    obs.log[i].rem = Len(calls) /\ obs.log[i].pass = asm.pass})

\* What is left to do: the calls to come, the passes of the call that is
\* running, the statements of the pass that is running.
Variant ==
    LET running == ctl \in {"run", "passEnd"}
        passes == IF ~running THEN 0 ELSE IF asm.pass = 0 THEN 2 ELSE 1
        steps == IF ~running THEN 0 ELSE FilesBound + 1 - PassSteps
    IN  (3 * Len(calls) + passes) * (FilesBound + 2) + steps

\* A pass assembles no more statements than its files and their includes
\* hold tokens.
StepsBounded == ctl \in {"run", "passEnd"} => PassSteps <= PassBound

\* C26: an include of a file that is on the open-file stack pushes no
\* scanner and reports an error for the statement, so the stack never holds
\* more scanners than there are files, and every call of AssembleFile
\* returns, also when the includes form a cycle: every step of the program
\* lowers a natural number, so no run has infinitely many steps.
C26_IncludeTermination ==
    /\ []StackBounded
    /\ []StepsBounded
    /\ [](Variant \in Nat)
    /\ [][Variant' < Variant]_vars

\* a.asm includes b.asm and b.asm includes a.asm: the include in b.asm was
\* refused in pass 1 and AssembleFile returned.
C26_Witness ==
    /\ ctl = "returned" /\ fname = "a.asm"
    /\ \E i \in LogIdx(1) :
          /\ obs.log[i].name = "include"
          /\ obs.log[i].loc.file = "b.asm"
          /\ obs.log[i].args = <<exprString("a.asm")>>
          /\ obs.log[i].err.msg = "recursive include of file"

-----------------------------------------------------------------------------
(* C27: the source stack at the end of a pass                              *)

\* No scanner, reader or file name is left on the stacks.
StacksEmpty ==
    asm.scanners = <<>> /\ asm.closers = <<>> /\ asm.openFiles = <<>>

\* C27: whenever a pass ends and whenever AssembleFile returns, with or
\* without error, the scanner, closer and open-file stacks are empty: every
\* reader the opener gave out has been closed.
C27_Original == ctl \in {"passEnd", "returned"} => StacksEmpty

-----------------------------------------------------------------------------
(* C28: what a statement that fails leaves behind                          *)

\* The results of the data or instruction statement that starts with the
\* token n scanned.
Outcomes(n) ==
    IF n.err # NoErr THEN {}
    ELSE IF IsCommand(n.tok, "data")
      THEN {cmdData_W(n.a, files, commandTable(n.a)[ToLower(n.tok.s)].n)}
    ELSE IF IsCommand(n.tok, "instr")
      THEN commandAssembler_W(n.a, files,
                              commandTable(n.a)[ToLower(n.tok.s)].args)
    ELSE {}

\* The statement reported an error.
Failed(o) == o.err \notin {NoErr, Panic, Fatal}

\* C28: a data or instruction statement that reports an error leaves pc,
\* target and every byte of RAM as they were before it.
C28_Original ==
    ctl = "run" =>
        \A o \in Outcomes(First) :
            Failed(o) =>
                /\ o.a.pc = asm.pc /\ o.a.target = asm.target
                /\ \A x \in 0..(asm.m.len - 1) : MemAt(o.a, x) = MemAt(asm, x)

-----------------------------------------------------------------------------
(* C29: one assignment for every label                                     *)

\* C29: when AssembleFile returns nil, pass 0 assigned every qualified
\* label name exactly once, also when the definitions are reached through
\* include.
C29_Original ==
    Returned /\ result = <<>> =>
        \A i, j \in LogIdx(0) :
            /\ IsLabel(obs.log[i]) /\ IsLabel(obs.log[j])
            /\ Key(obs.log[i]) = Key(obs.log[j])
            => i = j

-----------------------------------------------------------------------------
(* C30: a call does not depend on the calls before it                      *)

\* The statements of pass 1 of the call that is running or has returned.
CallLog(p) == {i \in LogIdx(p) : obs.log[i].rem = Len(calls)}

\* Pass 1 of the call read the file it was called on to its end and no
\* statement of it failed.
AssembledFile ==
    /\ \E i \in CallLog(1) :
          obs.log[i].kind = "EOF" /\ obs.log[i].loc.file = fname
    /\ \A i \in CallLog(1) : obs.log[i].err = NoErr

\* C30: in any sequence of calls on one assembler, a call returns nil only
\* if its pass 1 read the named file through EOF and assembled every
\* statement without error, and a call on the valid file c.asm returns nil
\* whatever the calls before it did.
C30_Original ==
    ctl = "returned" =>
        /\ result = <<>> => AssembledFile
        /\ (files \in CallSystems /\ fname = "c.asm") => result = <<>>

====
